---- MODULE Spec2Model ----
(***************************************************************************)
(* line-food-bot: the chat-reply core of lib/gemini.js.                    *)
(*                                                                         *)
(* State: the in-memory conversation cache (chatHistoryCache, a Map from   *)
(* userId to {history, lastUpdated}, where history is a JavaScript array   *)
(* held by reference), the daily usage tracker (apiUsageTracker), the      *)
(* wall clock, and the generateChatReply calls in flight.  Every `await`   *)
(* of generateChatReply / callOpenRouter is a suspension point: the code   *)
(* between two awaits is one atomic action.                                *)
(*                                                                         *)
(* Strings are sequences of one-character tokens so that String.trim() is  *)
(* computed, not assumed.                                                  *)
(***************************************************************************)
EXTENDS Integers, Sequences, FiniteSets, TLC

(***************************************************************************)
(* Program constants (lib/constants.js)                                    *)
(***************************************************************************)
FLASH_LIMIT == 250
FLASH_THRESHOLD == 240
MAX_HISTORY_LENGTH == 6
HISTORY_TTL_MS == 30 * 60 * 1000

(***************************************************************************)
(* Bounds of the model                                                     *)
(***************************************************************************)
\* generateChatReply calls started in one behaviour
MaxReq == 2
\* exchanges of the one identity of OneUserSpec
MaxExchanges == 4
\* generateChatReply calls suspended at an await at the same time
MaxInFlight == 2
\* clock advances in one behaviour
MaxTicks == 2
\* generateChatReply calls of the one identity of RaceSpec
MaxRace == 3

(***************************************************************************)
(* Time.  The clock counts whole seconds since the epoch: a year of        *)
(* milliseconds is beyond the integers of the model checker, Date.now()    *)
(* is 1000 * now, and the times that the code compares are whole seconds   *)
(* here.  toLocaleDateString('zh-TW', {timeZone: 'Asia/Taipei'}) renders   *)
(* the calendar day at UTC+8; the day number stands for the rendered       *)
(* string.                                                                 *)
(***************************************************************************)
DAY_MS == 24 * 60 * 60 * 1000
TAIPEI_OFFSET_MS == 8 * 60 * 60 * 1000

\* a time of the code, in milliseconds, on the clock of the model
Seconds(ms) == ms \div 1000

TaipeiDate(t) == (t + Seconds(TAIPEI_OFFSET_MS)) \div Seconds(DAY_MS)

\* the process starts 23:30:00 Taipei time, so that the day changes
\* exactly HISTORY_TTL_MS later
StartNow == 3 * Seconds(DAY_MS) - Seconds(TAIPEI_OFFSET_MS) - Seconds(HISTORY_TTL_MS)
\* the clock steps the environment takes
Deltas == {1, Seconds(HISTORY_TTL_MS)}

\* apiUsageTracker.date === '' before the first access
NoDate == -1

(***************************************************************************)
(* Strings                                                                 *)
(***************************************************************************)
\* white space of String.prototype.trim: the blank and the line feed
Whitespace == {" ", "\n"}

RECURSIVE trimStart(_)
trimStart(s) ==
    IF s # <<>> /\ Head(s) \in Whitespace THEN trimStart(Tail(s)) ELSE s

RECURSIVE trimEnd(_)
trimEnd(s) ==
    IF s # <<>> /\ s[Len(s)] \in Whitespace
    THEN trimEnd(SubSeq(s, 1, Len(s) - 1))
    ELSE s

\* String.prototype.trim
trim(s) == trimEnd(trimStart(s))

\* String.prototype.startsWith: a is the start of b
IsPrefix(a, b) == Len(a) <= Len(b) /\ \A i \in 1..Len(a) : a[i] = b[i]

\* the two fixed replies of generateChatReply
NO_MESSAGE == <<"NO_MESSAGE_RECEIVED">>
MODEL_ERROR == <<"AI_MODEL_ERROR">>

(***************************************************************************)
(* Inputs                                                                  *)
(***************************************************************************)
Users == {"u1", "u2"}
\* userId = null
NoUser == "none"
\* imageBase64 = null
NoImage == <<>>

\* the text of the k-th call: every call brings a message of its own, so
\* that the order of stored turns is observable
MsgToken(k) == <<"m1", "m2", "m3", "m4", "m5", "m6", "m7", "m8">>[k]
Messages(k) == {<<>>, <<" ">>, <<" ", MsgToken(k), " ">>}
\* (imageBase64, systemContext): a text message without grounding context,
\* or an image with the context the caller built for it
Extras == {<<NoImage, <<>>>>, <<<<"I">>, <<"G">>>>}

\* what a provider call can come to: `kind` is how the awaited promise
\* settles, `text` the text it carries (none, blanks, or a text to trim)
Outcome(kind, text) == [kind |-> kind, text |-> text]
ProviderTexts(tag) == {<<>>, <<" ">>, <<" ", tag, " ">>}
\* generateContent rejects | response.text() is the text
GeminiOutcomes ==
    {Outcome("throw", <<>>)} \cup {Outcome("text", t) : t \in ProviderTexts("g")}
\* fetch rejects | res.ok is false | content is not a string | content
OpenRouterOutcomes(model) ==
    {Outcome(k, <<>>) : k \in {"throw", "non2xx", "nostring"}}
    \cup {Outcome("text", t) : t \in ProviderTexts(model)}

IsText(o) == o.kind = "text"

(***************************************************************************)
(* Configuration: process.env                                              *)
(***************************************************************************)
Envs ==
    [GEMINI_API_KEY : BOOLEAN, OPENROUTER_API_KEY : BOOLEAN,
     OPENROUTER_MODEL : {"A"}, OPENROUTER_MODEL_FALLBACKS : {<<"A", "B">>}]

RECURSIVE dedupe(_, _)
dedupe(s, seen) ==
    IF s = <<>> THEN <<>>
    ELSE IF Head(s) \in seen THEN dedupe(Tail(s), seen)
    ELSE <<Head(s)>> \o dedupe(Tail(s), seen \cup {Head(s)})

\* [...new Set([preferredModel, ...fallbackModels])]
getOpenRouterModels(e) ==
    dedupe(<<e.OPENROUTER_MODEL>> \o e.OPENROUTER_MODEL_FALLBACKS, {})

(***************************************************************************)
(* Conversation memory                                                     *)
(***************************************************************************)
NoEntry == [history |-> 0, lastUpdated |-> -1]

Slots == 1..MaxInFlight
\* arrays reachable from the cache or from a suspended call
Refs == 1..(Cardinality(Users) + MaxInFlight + 1)

Turn(role, content) == [role |-> role, content |-> content]

\* userCache && (now.getTime() - userCache.lastUpdated < HISTORY_TTL_MS)
IsFresh(t, lastUpdated) == t - lastUpdated < Seconds(HISTORY_TTL_MS)

\* Date.now() - cache.lastUpdated > HISTORY_TTL_MS
IsExpiredForGet(t, lastUpdated) == t - lastUpdated > Seconds(HISTORY_TTL_MS)

\* mutant of sliceHistory: slice(0, MAX_HISTORY_LENGTH) keeps the oldest
sliceHistory_KeepOldest(h) ==
    IF Len(h) > MAX_HISTORY_LENGTH THEN SubSeq(h, 1, MAX_HISTORY_LENGTH) ELSE h

\* mutant of sliceHistory: one turn fewer is kept
sliceHistory_OneFewer(h) ==
    IF Len(h) > MAX_HISTORY_LENGTH
    THEN SubSeq(h, Len(h) - MAX_HISTORY_LENGTH + 2, Len(h))
    ELSE h

\* userHistory.slice(userHistory.length - MAX_HISTORY_LENGTH), when longer
sliceHistory(h) ==
    IF Len(h) > MAX_HISTORY_LENGTH
    THEN SubSeq(h, Len(h) - MAX_HISTORY_LENGTH + 1, Len(h))
    ELSE h

\* mutant of pushedTurns: the message is stored as received, untrimmed
pushedTurns_Untrimmed(userMessage, finalReply) ==
    <<Turn("user", userMessage), Turn("model", finalReply)>>

\* mutant of pushedTurns: the reply is pushed before the message
pushedTurns_ReplyFirst(userMessage, finalReply) ==
    <<Turn("model", finalReply), Turn("user", trim(userMessage))>>

\* the two turns pushed by a successful exchange
pushedTurns(userMessage, finalReply) ==
    <<Turn("user", trim(userMessage)), Turn("model", finalReply)>>

(***************************************************************************)
(* Prompt                                                                  *)
(***************************************************************************)
RECURSIVE renderHistory(_)
renderHistory(h) ==
    IF h = <<>> THEN <<>>
    ELSE <<IF Head(h).role = "user" THEN "me:" ELSE "you:">> \o Head(h).content
         \o <<"\n">> \o renderHistory(Tail(h))

historyContext(h) ==
    IF Len(h) > 0 THEN <<"[history]">> \o renderHistory(h) \o <<"[/history]">>
    ELSE <<>>

\* promptText, lines 139-162: time/name header, history block, the trimmed
\* message with a line end after it, then a line end and the system context
composePrompt(h, userMessage, systemContext) ==
    <<"[system]">> \o historyContext(h) \o <<"[message]">> \o trim(userMessage)
    \o <<"\n">>
    \o (IF systemContext # <<>> THEN <<"\n">> \o systemContext ELSE <<>>)

(***************************************************************************)
(* Usage tracker                                                           *)
(***************************************************************************)
\* mutant of syncDate: the counter is reset on every access
syncDate_AlwaysReset(tr, today) == [date |-> today, flashCount |-> 0]

\* if (apiUsageTracker.date !== todayStr) { date = todayStr; flashCount = 0 }
syncDate(tr, today) ==
    IF tr.date # today THEN [date |-> today, flashCount |-> 0] ELSE tr

\* mutant of selectModel: > for >=
selectModel_Strict(flashCount) ==
    IF flashCount > FLASH_THRESHOLD THEN "gemini-2.5-flash-lite"
    ELSE "gemini-2.5-flash"

\* flashCount >= FLASH_THRESHOLD selects gemini-2.5-flash-lite
selectModel(flashCount) ==
    IF flashCount >= FLASH_THRESHOLD THEN "gemini-2.5-flash-lite"
    ELSE "gemini-2.5-flash"

\* the counter after generateContent resolved with the text `text`
countAfterPrimary(flashCount, selectedModel, text) ==
    IF selectedModel = "gemini-2.5-flash" THEN flashCount + 1 ELSE flashCount

(***************************************************************************)
(* State                                                                   *)
(***************************************************************************)
VARIABLES
    env,               \* process.env
    now,               \* the wall clock
    ticks,             \* clock advances so far
    chatHistoryCache,  \* userId -> NoEntry or [history: Ref, lastUpdated]
    heap,              \* Ref -> the elements of that array
    apiUsageTracker,   \* [date, flashCount]
    req,               \* Slot -> the generateChatReply call in that slot
    started,           \* generateChatReply calls started so far
    log,               \* userId -> every turn ever stored for it, in order
    obs,               \* the generateChatReply call that returned last
    flex,              \* lib/flexBuilder.js: a reply and what is sent for it
    sched,             \* lib/schedule.js: a text or a pace and what is made of it
    storageBySource,   \* lib/schedule.js: the cached documents of every source
    msg,               \* lib/handler.js: the handleMessage call that moved last
    imageBatchQueue,   \* lib/imageHandler.js: userId -> the batch being collected
    timers,            \* the armed timers of setTimeout
    flushes,           \* the timer callbacks that took a batch, in order
    arrived,           \* images received so far
    processedRetries,  \* index.js: the x-line-retry-key values kept
    handled,           \* retry key -> requests handed to handleEvent, handlers failed
    background,        \* the handleMessage calls that wait at an await, in order
    intent,            \* lib/geminiParser.js: the parseUserIntent calls
    pending            \* model -> anonymous generateChatReply calls awaiting it

\* the state outside lib/gemini.js
webVars == <<imageBatchQueue, timers, flushes, arrived, processedRetries, handled,
             background, intent, pending>>

outside == <<flex, sched, storageBySource, msg, webVars>>

\* the state of lib/gemini.js
geminiVars == <<env, now, ticks, chatHistoryCache, heap, apiUsageTracker, req,
                started, log, obs>>

vars == <<geminiVars, outside>>

Idle ==
    [pc |-> "idle", userMessage |-> <<>>, imageBase64 |-> NoImage,
     userId |-> NoUser, systemContext |-> <<>>, userHistory |-> 0,
     promptText |-> <<>>, selectedModel |-> "", models |-> <<>>, idx |-> 0,
     attempts |-> <<>>]

\* no call has returned yet
NoObs == [userId |-> NoUser, userMessage |-> <<>>, imageBase64 |-> NoImage,
          systemContext |-> <<>>, attempts |-> <<>>, ret |-> <<>>]

\* no reply is being rendered
NoFlex == [aiResponse |-> <<>>, sent |-> <<>>]

\* no source has a cached document
NoStorage == [s \in Users |-> <<>>]

\* no text, no pace and no period is being read
NoSched == [text |-> <<>>, pace |-> <<>>, step |-> "idle", isSchedule |-> FALSE,
            parsed |-> [weekLabel |-> <<>>, periodStr |-> <<>>, groups |-> <<>>],
            seconds |-> -1, lapTime |-> -1,
            period |-> <<>>, ref |-> [year |-> 0, month |-> 0, date |-> 0, ms |-> 0],
            inPeriod |-> FALSE]

\* the turns of the entry of u, NoEntry read as no turns
EntryTurns(cache, hp, u) ==
    IF u \in Users /\ cache[u] # NoEntry THEN hp[cache[u].history] ELSE <<>>

GeminiInit ==
    /\ env \in Envs
    /\ now = StartNow
    /\ ticks = 0
    /\ chatHistoryCache = [u \in Users |-> NoEntry]
    /\ heap = [r \in Refs |-> <<>>]
    /\ apiUsageTracker \in
          {[date |-> NoDate, flashCount |-> 0],
           [date |-> TaipeiDate(StartNow), flashCount |-> FLASH_THRESHOLD - 1]}
    /\ req = [s \in Slots |-> Idle]
    /\ started = 0
    /\ log = [u \in Users |-> <<>>]
    /\ obs = NoObs

\* a value of JavaScript that is a string, null, undefined or a number
Str(v) == [type |-> "string", value |-> v]
Null == [type |-> "null", value |-> <<>>]
Undefined == [type |-> "undefined", value |-> <<>>]
Num == [type |-> "number", value |-> <<>>]

\* no anonymous call awaits a model
NoPending == [m \in {"gemini-2.5-flash", "gemini-2.5-flash-lite"} |-> 0]

\* parseUserIntent has not been called
NoIntent == [step |-> "idle", apiKey |-> FALSE, userMessage |-> <<>>,
             response |-> <<>>, result |-> [location |-> Null, cuisine |-> Null],
             calls |-> <<>>]

\* x-line-retry-key of a request that has none
NoKey == "none"

RetryKeys == {"k1", "k2", "k3"}

\* no event
NoEvent == [type |-> "", userId |-> NoUser, sourceId |-> "", message |-> "",
            text |-> <<>>, replyToken |-> 0]

\* a call of handleMessage for an event of the request with that retry key,
\* stopped at the await of `step`; kind is the route its text took,
\* promptText what it gives to generateChatReply, slot the call it awaits,
\* sent the messages it gave to sendMessage, calls what the LINE client was
\* called with
Handler(retryKey, event, step, promptText, sent) ==
    [retryKey |-> retryKey, event |-> event, step |-> step, slot |-> 0,
     kind |-> "", promptText |-> promptText, sent |-> sent, calls |-> <<>>]

\* the handlers but the i-th, which has returned or thrown
Without(bg, i) == SubSeq(bg, 1, i - 1) \o SubSeq(bg, i + 1, Len(bg))

\* no handleMessage call has got past getProfile
NoMsg == Handler(NoKey, NoEvent, "idle", <<>>, <<>>)
         @@ [thrown |-> FALSE, handled |-> 0]

\* no image and no request has been received
WebIdle ==
    /\ imageBatchQueue = <<>>
    /\ timers = {}
    /\ flushes = <<>>
    /\ arrived = 0
    /\ processedRetries = {}
    /\ handled = [k \in RetryKeys \cup {NoKey} |-> [requests |-> 0, failed |-> 0]]
    /\ background = <<>>
    /\ intent = NoIntent
    /\ pending = NoPending

\* nothing is cached and no text message has been received
HandlerIdle == storageBySource = NoStorage /\ msg = NoMsg /\ WebIdle

Init == GeminiInit /\ flex = NoFlex /\ sched = NoSched /\ HandlerIdle

(***************************************************************************)
(* Arrays: allocation and collection                                       *)
(***************************************************************************)
Referenced(cache, rq) ==
    {cache[u].history : u \in {v \in Users : cache[v] # NoEntry}}
    \cup {rq[s].userHistory : s \in {x \in Slots : rq[x].userHistory # 0}}

\* unreachable arrays are dropped
Collect(hp, cache, rq) ==
    [r \in Refs |-> IF r \in Referenced(cache, rq) THEN hp[r] ELSE <<>>]

\* a new array: the least reference nobody holds
NewRef(cache, rq) ==
    CHOOSE r \in Refs \ Referenced(cache, rq) :
        \A q \in Refs \ Referenced(cache, rq) : r <= q

(***************************************************************************)
(* The state that a call of lib/gemini.js or of handleMessage reads and    *)
(* writes, as a record: the code that runs between two awaits is a         *)
(* function from the world it finds to the world it leaves, so that the    *)
(* calls made one after the other in one turn of the event loop compose.   *)
(* `full` is set by a call that finds every slot of the model taken.       *)
(***************************************************************************)
World ==
    [cache |-> chatHistoryCache, heap |-> heap, tracker |-> apiUsageTracker,
     req |-> req, started |-> started, log |-> log, obs |-> obs,
     storage |-> storageBySource, background |-> background,
     flushes |-> flushes, msg |-> msg, full |-> FALSE]

\* the variables of a world become those of w
Becomes(w) ==
    /\ chatHistoryCache' = w.cache
    /\ heap' = w.heap
    /\ apiUsageTracker' = w.tracker
    /\ req' = w.req
    /\ started' = w.started
    /\ log' = w.log
    /\ obs' = w.obs
    /\ storageBySource' = w.storage
    /\ background' = w.background
    /\ flushes' = w.flushes
    /\ msg' = w.msg

\* the state beside the world
beside == <<env, now, ticks, flex, sched, imageBatchQueue, timers, arrived,
            processedRetries, handled, intent, pending>>

\* a turn of the event loop that leaves the world w
Step(w) == ~w.full /\ Becomes(w) /\ UNCHANGED beside

\* the slot a new call takes: the least idle one, 0 when all are taken
FreeSlot(rq) ==
    IF \A s \in Slots : rq[s].pc # "idle" THEN 0
    ELSE CHOOSE s \in Slots :
           rq[s].pc = "idle" /\ \A q \in Slots : q < s => rq[q].pc # "idle"

(***************************************************************************)
(* generateChatReply, lines 231-250: store the exchange and return.        *)
(* r is the call's local state, tr / cache / hp the tracker, the cache and *)
(* the arrays as the code before it in the same step left them.            *)
(***************************************************************************)
Return(w, s, r, finalReply, tr, cache, hp) ==
    LET u == r.userId
        rq == [w.req EXCEPT ![s] = Idle]
        held == [w.req EXCEPT ![s] = r]
        stored == finalReply # <<>> /\ u \in Users
        \* userHistory.push(...) x 2 on the array the call holds
        old == IF r.userHistory = 0 THEN <<>> ELSE hp[r.userHistory]
        pushed == old \o pushedTurns(r.userMessage, finalReply)
        hp1 == IF r.userHistory = 0 THEN hp
               ELSE [hp EXCEPT ![r.userHistory] = pushed]
        \* slice() and the literal [] make a new array
        fresh == r.userHistory = 0 \/ Len(pushed) > MAX_HISTORY_LENGTH
        ref == IF fresh THEN NewRef(cache, held) ELSE r.userHistory
        hp2 == IF fresh THEN [hp1 EXCEPT ![ref] = sliceHistory(pushed)] ELSE hp1
        cache2 == [cache EXCEPT ![u] = [history |-> ref, lastUpdated |-> now]]
    IN  [w EXCEPT
           !.req = rq,
           !.tracker = tr,
           !.cache = IF stored THEN cache2 ELSE cache,
           !.heap = IF stored THEN Collect(hp2, cache2, rq)
                    ELSE Collect(hp, cache, rq),
           !.log = IF stored
                   THEN [@ EXCEPT ![u] = @ \o pushedTurns(r.userMessage, finalReply)]
                   ELSE @,
           !.obs = [userId |-> u, userMessage |-> r.userMessage,
                    imageBase64 |-> r.imageBase64,
                    systemContext |-> r.systemContext, attempts |-> r.attempts,
                    ret |-> IF finalReply # <<>> THEN finalReply ELSE MODEL_ERROR]]

\* the call stays suspended at an await
Suspend(w, s, r, tr, cache, hp) ==
    [w EXCEPT !.req = [@ EXCEPT ![s] = r],
              !.tracker = tr,
              !.cache = cache,
              !.heap = Collect(hp, cache, [w.req EXCEPT ![s] = r])]

\* mutant of SecondaryOrReturn: OpenRouter is tried whatever the primary gave
SecondaryOrReturn_Always(w, s, r, finalReply, tr, cache, hp) ==
    IF env.OPENROUTER_API_KEY
    THEN Suspend(w, s, [r EXCEPT !.pc = "openrouter",
                                 !.models = getOpenRouterModels(env),
                                 !.idx = 1],
                 tr, cache, hp)
    ELSE Return(w, s, r, finalReply, tr, cache, hp)

(***************************************************************************)
(* generateChatReply, lines 219-229: with no reply of the primary and an   *)
(* OpenRouter key, callOpenRouter runs up to the fetch of its first model. *)
(***************************************************************************)
SecondaryOrReturn(w, s, r, finalReply, tr, cache, hp) ==
    IF finalReply = <<>> /\ env.OPENROUTER_API_KEY
    THEN Suspend(w, s, [r EXCEPT !.pc = "openrouter",
                                 !.models = getOpenRouterModels(env),
                                 !.idx = 1],
                 tr, cache, hp)
    ELSE Return(w, s, r, finalReply, tr, cache, hp)

(***************************************************************************)
(* generateChatReply, lines 130-206: from the call to the first await.     *)
(***************************************************************************)
\* mutant of isBlank: the trim is forgotten
isBlank_NoTrim(userMessage) == userMessage = <<>>

\* !userMessage || !userMessage.trim()
isBlank(userMessage) == userMessage = <<>> \/ trim(userMessage) = <<>>

\* mutant of cacheAfterRead: the read sweeps every expired entry
cacheAfterRead_Sweep(cache, userId, t) ==
    [u \in Users |->
        IF userId \in Users /\ cache[u] # NoEntry
           /\ ~IsFresh(t, cache[u].lastUpdated)
        THEN NoEntry ELSE cache[u]]

\* lines 141-157: the entry of userId after the read
cacheAfterRead(cache, userId, t) ==
    IF userId \in Users /\ cache[userId] # NoEntry
       /\ ~IsFresh(t, cache[userId].lastUpdated)
    THEN [cache EXCEPT ![userId] = NoEntry]
    ELSE cache

\* lines 141-157: the array userHistory refers to (0: a new empty array)
historyRead(cache, userId, t) ==
    IF userId \in Users /\ cache[userId] # NoEntry
       /\ IsFresh(t, cache[userId].lastUpdated)
    THEN cache[userId].history
    ELSE 0

\* the call takes the slot FreeSlot(w.req); it has returned in the world it
\* leaves when that slot is idle there
generateChatReply(w, userMessage, imageBase64, userId, systemContext) ==
    IF FreeSlot(w.req) = 0 THEN [w EXCEPT !.full = TRUE]
    ELSE IF isBlank(userMessage)
    THEN [w EXCEPT !.started = @ + 1,
                   !.obs = [userId |-> userId, userMessage |-> userMessage,
                            imageBase64 |-> imageBase64,
                            systemContext |-> systemContext, attempts |-> <<>>,
                            ret |-> NO_MESSAGE]]
    ELSE LET s == FreeSlot(w.req)
             ref == historyRead(w.cache, userId, now)
             cache1 == cacheAfterRead(w.cache, userId, now)
             h == IF ref = 0 THEN <<>> ELSE w.heap[ref]
             r0 == [Idle EXCEPT
                      !.userMessage = userMessage,
                      !.imageBase64 = imageBase64,
                      !.userId = userId,
                      !.systemContext = systemContext,
                      !.userHistory = ref,
                      !.promptText = composePrompt(h, userMessage, systemContext)]
             tr1 == syncDate(w.tracker, TaipeiDate(now))
             w1 == [w EXCEPT !.started = @ + 1]
         IN  IF env.GEMINI_API_KEY
             THEN Suspend(w1, s, [r0 EXCEPT
                                    !.pc = "gemini",
                                    !.selectedModel = selectModel(tr1.flashCount)],
                          tr1, cache1, w.heap)
             ELSE SecondaryOrReturn(w1, s, r0, <<>>, w.tracker, cache1, w.heap)

(***************************************************************************)
(* generateChatReply, lines 206-216: model.generateContent settles for the *)
(* call of slot s, which awaits it.                                        *)
(***************************************************************************)
\* (response.text() || '').trim(), '' when the call threw
primaryReply(outcome) == IF IsText(outcome) THEN trim(outcome.text) ELSE <<>>

GeminiSettles(w, s, outcome) ==
    LET r == w.req[s]
        finalReply == primaryReply(outcome)
        tr == IF IsText(outcome)
              THEN [w.tracker EXCEPT !.flashCount =
                       countAfterPrimary(@, r.selectedModel, outcome.text)]
              ELSE w.tracker
        r1 == [r EXCEPT !.attempts =
                  @ \o <<[model |-> r.selectedModel, reply |-> finalReply]>>]
    IN  SecondaryOrReturn(w, s, r1, finalReply, tr, w.cache, w.heap)

(***************************************************************************)
(* callOpenRouter, lines 71-123: the fetch of models[idx] settles for the  *)
(* call of slot s, which awaits it.                                        *)
(***************************************************************************)
\* typeof content === 'string' && content.trim() ? content.trim() : nothing
secondaryReply(outcome) == IF IsText(outcome) THEN trim(outcome.text) ELSE <<>>

OpenRouterSettles(w, s, outcome) ==
    LET r == w.req[s]
        text == secondaryReply(outcome)
        r1 == [r EXCEPT !.attempts =
                  @ \o <<[model |-> r.models[r.idx], reply |-> text]>>]
    IN  IF text # <<>>
        THEN Return(w, s, r1, text, w.tracker, w.cache, w.heap)
        ELSE IF r.idx < Len(r.models)
        THEN Suspend(w, s, [r1 EXCEPT !.idx = r.idx + 1],
                     w.tracker, w.cache, w.heap)
        \* all models failed: callOpenRouter throws, the caller catches
        ELSE Return(w, s, r1, <<>>, w.tracker, w.cache, w.heap)

(***************************************************************************)
(* getUserHistory, lines 279-289.  The value returned is a function of the *)
(* state the call finds; the action is the effect of the call.             *)
(***************************************************************************)
\* the entry is deleted by getUserHistory(userId) called at time t
getDeletes(cache, userId, t) ==
    /\ userId \in Users
    /\ cache[userId] # NoEntry
    /\ IsExpiredForGet(t, cache[userId].lastUpdated)

\* the elements of the array getUserHistory(userId) returns at time t
getUserHistoryValue(cache, hp, userId, t) ==
    IF userId \notin Users THEN <<>>
    ELSE IF cache[userId] = NoEntry THEN <<>>
    ELSE IF IsExpiredForGet(t, cache[userId].lastUpdated) THEN <<>>
    ELSE hp[cache[userId].history]

getUserHistory(userId) ==
    /\ UNCHANGED <<outside, env, now, ticks, apiUsageTracker, req, started, log, obs>>
    /\ LET cache1 == IF getDeletes(chatHistoryCache, userId, now)
                     THEN [chatHistoryCache EXCEPT ![userId] = NoEntry]
                     ELSE chatHistoryCache
       IN  /\ chatHistoryCache' = cache1
           /\ heap' = Collect(heap, cache1, req)

(***************************************************************************)
(* getApiUsageStatus, lines 256-274                                        *)
(***************************************************************************)
\* Math.max(0, FLASH_LIMIT - flashCount)
remaining(flashCount) ==
    IF FLASH_LIMIT - flashCount > 0 THEN FLASH_LIMIT - flashCount ELSE 0

\* the figures of the report built from the tracker after the date check
usageReport(tr) ==
    [date |-> tr.date, model |-> selectModel(tr.flashCount),
     flashCount |-> tr.flashCount, remaining |-> remaining(tr.flashCount)]

getApiUsageStatus ==
    /\ apiUsageTracker' = syncDate(apiUsageTracker, TaipeiDate(now))
    /\ UNCHANGED <<outside, env, now, ticks, chatHistoryCache, heap, req, started, log,
                   obs>>

(***************************************************************************)
(* The clock                                                               *)
(***************************************************************************)
Tick(d) ==
    /\ ticks < MaxTicks
    /\ now' = now + d
    /\ ticks' = ticks + 1
    /\ UNCHANGED <<outside, env, chatHistoryCache, heap, apiUsageTracker, req, started,
                   log, obs>>

(***************************************************************************)
(* generateChatReply, lines 130-250, for calls without a userId when only  *)
(* the Gemini key is set.  Such calls leave nothing but the tracker and    *)
(* their return value, and calls awaiting the same model are alike, so the *)
(* suspended calls are counted per selected model.                         *)
(***************************************************************************)
\* at most this many anonymous calls are started
MaxPending == 12

\* lines 130-206: the date is synchronised, the model is selected and the
\* call is suspended at generateContent
requestStarts ==
    /\ env.GEMINI_API_KEY /\ ~env.OPENROUTER_API_KEY
    /\ started < MaxPending
    /\ started' = started + 1
    /\ \E tr1 \in {syncDate(apiUsageTracker, TaipeiDate(now))} :
          /\ apiUsageTracker' = tr1
          /\ pending' = [pending EXCEPT ![selectModel(tr1.flashCount)] = @ + 1]
    /\ UNCHANGED <<env, now, ticks, chatHistoryCache, heap, req, log, obs, flex, sched,
                   storageBySource, msg, imageBatchQueue, timers, flushes,
                   arrived, processedRetries, handled, background, intent>>

\* lines 206-250: generateContent of a call that selected `selectedModel`
\* settles, the call counts and returns
requestSettles(selectedModel, outcome) ==
    /\ pending[selectedModel] > 0
    /\ pending' = [pending EXCEPT ![selectedModel] = @ - 1]
    /\ apiUsageTracker' =
          (IF IsText(outcome)
           THEN [apiUsageTracker EXCEPT !.flashCount =
                    countAfterPrimary(@, selectedModel, outcome.text)]
           ELSE apiUsageTracker)
    /\ \E finalReply \in {primaryReply(outcome)} :
          obs' = [userId |-> NoUser, userMessage |-> <<"h", "i">>,
                  imageBase64 |-> NoImage, systemContext |-> <<>>,
                  attempts |-> <<[model |-> selectedModel, reply |-> finalReply]>>,
                  ret |-> IF finalReply # <<>> THEN finalReply ELSE MODEL_ERROR]
    /\ UNCHANGED <<env, now, ticks, chatHistoryCache, heap, req, started, log, flex,
                   sched, storageBySource, msg, imageBatchQueue, timers,
                   flushes, arrived, processedRetries, handled, background, intent>>

(***************************************************************************)
(* lib/flexBuilder.js.  A reply is a sequence of one-character tokens; a   *)
(* character outside ASCII is the token "Uxxxx" of its code point.  Inside *)
(* a fenced block a JSON object or scalar is one lexeme: the token that    *)
(* names it in JsonLexemes.  The JSON texts of the model are a scalar, an  *)
(* object, or an array of scalars and objects.                             *)
(***************************************************************************)
\* restaurants.slice(0, 10)
MAX_BUBBLES == 10
\* safeMapUrl.length > 1000
MAX_URI_LENGTH == 1000

Chars(n, c) == [i \in 1..n |-> c]
\* three backticks, each written "^"
FENCE == <<"^", "^", "^">>
HTTP == <<"h", "t", "t", "p", ":", "/", "/">>
HTTPS == <<"h", "t", "t", "p", "s", ":", "/", "/">>
FTP == <<"f", "t", "p", ":", "/", "/">>
\* https://www.google.com/maps/search/?api=1&query=
SEARCH_URL ==
    HTTPS \o <<"w", "w", "w", ".", "g", "o", "o", "g", "l", "e", ".", "c", "o", "m">>
    \o <<"/", "m", "a", "p", "s", "/", "s", "e", "a", "r", "c", "h", "/">>
    \o <<"?", "a", "p", "i", "=", "1", "&", "q", "u", "e", "r", "y", "=">>

\* the UTF-8 percent-encoding of one character
percentEncode(c) ==
    CASE c = "U4E2D" -> <<"%", "E", "4", "%", "B", "8", "%", "A", "D">>
      [] c = "U9910" -> <<"%", "E", "9", "%", "A", "4", "%", "9", "0">>
      [] c = "U5EF3" -> <<"%", "E", "5", "%", "B", "B", "%", "B", "3">>
      [] OTHER -> <<c>>

\* every character of x percent-encoded (by halves: x may be long)
RECURSIVE percentEncodeAll(_)
percentEncodeAll(x) ==
    IF x = <<>> THEN <<>>
    ELSE IF Len(x) = 1 THEN percentEncode(x[1])
    ELSE percentEncodeAll(SubSeq(x, 1, Len(x) \div 2))
         \o percentEncodeAll(SubSeq(x, Len(x) \div 2 + 1, Len(x)))

\* encodeURIComponent of a name: letters and characters outside ASCII
encodeURIComponent(x) == percentEncodeAll(x)

\* new URL(x).href of a text scheme://host/path that parses: the characters
\* of the path outside ASCII are percent-encoded
href(x) == percentEncodeAll(x)

\* the fields of the records the lexemes stand for; a scalar has none
JsonLexemes ==
    [full |-> [name |-> <<"a">>, rating |-> <<"4">>, price |-> <<"$">>,
               item |-> <<"i">>, mapUrl |-> HTTPS \o <<"h", "/", "U4E2D">>],
     bare |-> [rating |-> <<>>],
     ftp |-> [name |-> <<"b">>, mapUrl |-> FTP \o <<"h", "/", "a">>],
     relative |-> [name |-> <<"U4E2D">>, mapUrl |-> <<"h", "/", "a">>],
     long |-> [name |-> <<"c">>,
               mapUrl |-> HTTP \o <<"h", "/">> \o Chars(MAX_URI_LENGTH, "a")],
     wide |-> [name |-> <<"d">>,
               mapUrl |-> HTTPS \o <<"h", "/">> \o Chars(MAX_URI_LENGTH \div 9, "U4E2D")],
     longname |-> [name |-> Chars(MAX_URI_LENGTH \div 9, "U4E2D")],
     one |-> [number |-> <<"1">>]]
Objects == {"full", "bare", "ftp", "relative", "long", "wide", "longname"}

\* r.f || '', undefined and '' being both falsy
Field(r, f) ==
    IF r \in Objects /\ f \in DOMAIN JsonLexemes[r] THEN JsonLexemes[r][f] ELSE <<>>

\* JSON.parse: "throw" for a SyntaxError, else the kind of value and, for
\* an array, its elements
JSONparse(text) ==
    LET NotWs(c) == c \notin Whitespace
        t == SelectSeq(text, NotWs)
        n == Len(t)
        IsValue(c) == c \in Objects \cup {"one", "null"}
        kindOf(c) == IF c \in Objects THEN "object"
                     ELSE IF c = "null" THEN "null" ELSE "scalar"
        items == [i \in 1..(n \div 2) |-> t[2 * i]]
    IN  IF n = 1 /\ IsValue(t[1]) THEN [kind |-> kindOf(t[1]), items |-> <<>>]
        ELSE IF n = 2 /\ t = <<"[", "]">> THEN [kind |-> "array", items |-> <<>>]
        ELSE IF /\ n >= 3 /\ n % 2 = 1 /\ t[1] = "[" /\ t[n] = "]"
                /\ \A i \in 2..(n - 1) :
                      IF i % 2 = 0 THEN IsValue(t[i]) ELSE t[i] = ","
        THEN [kind |-> "array", items |-> items]
        ELSE [kind |-> "throw", items |-> <<>>]

\* new URL(x) of a text scheme://host/path: does it parse
urlParses(x) ==
    \E scheme \in {HTTP, HTTPS, FTP} :
        /\ IsPrefix(scheme, x)
        /\ Len(x) > Len(scheme)
        /\ x[Len(scheme) + 1] \notin {"/", "?", "#"}

\* lines 13-29: the link of the card of r
safeMapUrl(r) ==
    LET given == Field(r, "mapUrl")
        fallbackName == IF Field(r, "name") # <<>> THEN Field(r, "name")
                        ELSE <<"U9910", "U5EF3">>
        url == IF urlParses(given) /\ (IsPrefix(HTTP, given) \/ IsPrefix(HTTPS, given))
               THEN href(given)
               ELSE SEARCH_URL \o encodeURIComponent(fallbackName)
    IN  IF Len(url) > MAX_URI_LENGTH THEN SubSeq(url, 1, MAX_URI_LENGTH) ELSE url

\* lines 31-60: the texts and the link of one bubble
bubble(r) ==
    LET \* r.f || the default text
        orDefault(x, f, default) == IF Field(x, f) # <<>> THEN Field(x, f) ELSE default
    IN
    [name |-> orDefault(r, "name", <<"U672A", "U77E5", "U540D", "U7A31">>),
     rating |-> <<"U2B50", " ">> \o orDefault(r, "rating", <<"U7121">>),
     price |-> <<"U1F4B0", " ">> \o orDefault(r, "price", <<"U7121">>),
     item |-> <<"U1F35C", " ">> \o orDefault(r, "item", <<"U7121">>),
     uri |-> safeMapUrl(r)]

\* mutant of buildRestaurantCarousel: the cards come out in reverse order
buildRestaurantCarousel_Reversed(restaurants) ==
    LET n == IF Len(restaurants) > MAX_BUBBLES THEN MAX_BUBBLES ELSE Len(restaurants)
    IN  [i \in 1..n |-> bubble(restaurants[n + 1 - i])]

\* restaurants.slice(0, 10).map(...)
buildRestaurantCarousel(restaurants) ==
    LET n == IF Len(restaurants) > MAX_BUBBLES THEN MAX_BUBBLES ELSE Len(restaurants)
    IN  [i \in 1..n |-> bubble(restaurants[i])]

\* /```(?:json)?\n([\s\S]*?)\n```/i: the leftmost match, its group the
\* shortest; from = 0 when there is none
fenceMatch(s) ==
    LET at(i, w) == i + Len(w) - 1 <= Len(s) /\ SubSeq(s, i, i + Len(w) - 1) = w
        \* the place of the group when the pattern starts at i, else 0
        groupAt(i) ==
            IF ~at(i, FENCE) THEN 0
            ELSE IF at(i + 3, <<"\n">>) THEN i + 4
            ELSE IF \/ at(i + 3, <<"j", "s", "o", "n", "\n">>)
                    \/ at(i + 3, <<"J", "S", "O", "N", "\n">>)
            THEN i + 8
            ELSE 0
        closes(i, j) == groupAt(i) # 0 /\ j >= groupAt(i) /\ at(j, <<"\n">> \o FENCE)
        starts == {i \in 1..Len(s) : \E j \in 1..Len(s) : closes(i, j)}
    IN  IF starts = {} THEN [from |-> 0, group |-> <<>>, to |-> 0]
        ELSE LET i == CHOOSE x \in starts : \A y \in starts : x <= y
                 j == CHOOSE x \in 1..Len(s) :
                          closes(i, x) /\ \A y \in 1..Len(s) : closes(i, y) => x <= y
             IN  [from |-> i, group |-> SubSeq(s, groupAt(i), j - 1), to |-> j + 3]

\* lines 69-100; null is <<>>, which the function never returns as a list
tryParseFlexResponse(aiResponse) ==
    LET m == fenceMatch(aiResponse)
        restaurants == JSONparse(m.group)
        introText == trim(SubSeq(aiResponse, 1, m.from - 1)
                          \o SubSeq(aiResponse, m.to + 1, Len(aiResponse)))
        \* a property of null is read: TypeError
        throws == \E i \in 1..Len(restaurants.items) :
                      i <= MAX_BUBBLES /\ restaurants.items[i] = "null"
        bubbles == buildRestaurantCarousel(restaurants.items)
    IN  IF m.from = 0 THEN <<>>
        ELSE IF restaurants.kind # "array" THEN <<>>
        ELSE IF throws THEN <<>>
        ELSE (IF introText # <<>> THEN <<[type |-> "text", text |-> introText]>>
              ELSE <<>>)
             \o (IF Len(bubbles) > 0 THEN <<[type |-> "flex", contents |-> bubbles]>>
                 ELSE <<>>)

\* handleMessage, lines 472-483: the messages sent for the reply
messagesToSend(aiResponse) ==
    IF tryParseFlexResponse(aiResponse) # <<>>
    THEN tryParseFlexResponse(aiResponse)
    ELSE <<[type |-> "text", text |-> aiResponse]>>

\* the replies of the model: a lead, an opening fence, the text of the
\* block, a closing fence and a tail
FlexReplies ==
    LET \* MAX_BUBBLES - 1 further elements of an array
        more == [i \in 1..(2 * (MAX_BUBBLES - 1)) |->
                    IF i % 2 = 1 THEN "," ELSE "full"]
        leads == {<<>>, <<" ", "x", "\n">>}
        openers == {<<>>, FENCE \o <<"\n">>, FENCE \o <<"j", "s", "o", "n", "\n">>,
                    FENCE \o <<"j", "s", "\n">>}
        bodies ==
            {<<>>, <<"x">>, <<"full">>, <<"one">>, <<"null">>, <<"[", "]">>,
             <<"[", "full", "]">>, <<"[", "full", ",", " ", "bare", "]">>,
             <<"[", "\n", "ftp", ",", "relative", "\n", "]">>,
             <<"[", "long", ",", "wide", ",", "longname", "]">>,
             <<"[", "one", "]">>, <<"[", "null", "]">>, <<"[", "full", ",", "]">>,
             <<"[", "full">>,
             <<"[", "ftp">> \o more \o <<",", "bare", "]">>,
             <<"[", "bare">> \o more \o <<",", "null", "]">>}
        closers == {<<>>, <<"\n">> \o FENCE, <<"\n">> \o FENCE \o <<"\n", "y", " ">>}
    IN  {l \o o \o b \o c : l \in leads, o \in openers, b \in bodies, c \in closers}

handleReply ==
    /\ flex.sent = <<>>
    /\ flex' = [flex EXCEPT !.sent = messagesToSend(flex.aiResponse)]
    /\ UNCHANGED <<geminiVars, sched, storageBySource, msg, webVars>>

(***************************************************************************)
(* lib/schedule.js.  A text is a sequence of one-character tokens, as for  *)
(* the replies above.  A regular expression is matched by hand: each of    *)
(* the expressions below has one way to match from a given start (its      *)
(* greedy runs are followed by a character outside the run's class), so    *)
(* the match is the leftmost start at which the pieces fit.                *)
(***************************************************************************)
Digits == {"0", "1", "2", "3", "4", "5", "6", "7", "8", "9"}

\* the place after the longest run of characters of Class that starts at i
run(s, i, Class) ==
    CHOOSE j \in i..(Len(s) + 1) :
        /\ \A k \in i..(j - 1) : s[k] \in Class
        /\ j = Len(s) + 1 \/ s[j] \notin Class

\* the text w stands at place i of s
at(s, i, w) ==
    i >= 1 /\ i + Len(w) - 1 <= Len(s) /\ \A k \in 1..Len(w) : s[i + k - 1] = w[k]

\* String.prototype.indexOf from place `from`, places counted from 1, 0 for -1
indexOf(s, w, from) ==
    LET found == {i \in from..Len(s) : at(s, i, w)}
    IN  IF found = {} THEN 0 ELSE CHOOSE i \in found : \A j \in found : i <= j

\* parseInt(ds, 10) of a text of digits
RECURSIVE parseInt(_)
parseInt(ds) ==
    IF ds = <<>> THEN 0
    ELSE 10 * parseInt(SubSeq(ds, 1, Len(ds) - 1))
         + (CHOOSE n \in 0..9 :
                <<"0", "1", "2", "3", "4", "5", "6", "7", "8", "9">>[n + 1] = ds[Len(ds)])

\* String.prototype.split on the character c
RECURSIVE split(_, _)
split(s, c) ==
    IF indexOf(s, <<c>>, 1) = 0 THEN <<s>>
    ELSE <<SubSeq(s, 1, indexOf(s, <<c>>, 1) - 1)>>
         \o split(SubSeq(s, indexOf(s, <<c>>, 1) + 1, Len(s)), c)

\* text.length < 100
MIN_SCHEDULE_LENGTH == 100
\* matchCount >= 3
MIN_KEYWORDS == 3
KEYWORDS ==
    {<<"U8A13", "U7DF4", "U9031", "U671F">>, <<"U5168", "U99AC", "U7D44">>,
     <<"S", "U", "B">>, <<"U9031", "U56DB">>,
     <<"w", "a", "r", "m", " ", "u", "p">>,
     <<"f", "r", "e", "e", "j", "o", "g">>}

\* mutant of isTrainingSchedule: two keywords are enough
isTrainingSchedule_TwoKeywords(text) ==
    /\ Len(text) >= MIN_SCHEDULE_LENGTH
    /\ Cardinality({k \in KEYWORDS : indexOf(text, k, 1) # 0}) >= MIN_KEYWORDS - 1

\* lines 73-80
isTrainingSchedule(text) ==
    /\ ~(text = <<>> \/ Len(text) < MIN_SCHEDULE_LENGTH)
    /\ Cardinality({k \in KEYWORDS : indexOf(text, k, 1) # 0}) >= MIN_KEYWORDS

\* paceToSeconds returns null
NoSeconds == -1

\* lines 85-93
paceToSeconds(paceStr) ==
    LET DigitOrColon(c) == c \in Digits \cup {":"}
        cleaned == SelectSeq(paceStr, DigitOrColon)
        parts == split(cleaned, ":")
    IN  IF Len(parts) # 2 THEN NoSeconds
        \* parseInt('') is NaN
        ELSE IF parts[1] = <<>> \/ parts[2] = <<>> THEN NoSeconds
        ELSE parseInt(parts[1]) * 60 + parseInt(parts[2])

\* mutant of paceToLapTime: the quotient is cut, not rounded
paceToLapTime_Floor(paceSeconds) == paceSeconds \div 5

\* Math.round(paceSeconds / 5): the integer nearest to the quotient, the
\* upper one at a half
paceToLapTime(paceSeconds) == (2 * paceSeconds + 5) \div 10

\* parseSchedule returns null: a document returned has a group
NoSchedule == [weekLabel |-> <<>>, periodStr |-> <<>>, groups |-> <<>>]

\* the regular expressions of parseSchedule.  An expression is a list of
\* alternatives in the order of preference, an alternative a list of pieces,
\* and a piece takes one character of a class or the longest run of them.
PATTERNS ==
    LET OneOf(C) == <<[class |-> C, min |-> 1, many |-> FALSE]>>
        OneOrMore(C) == <<[class |-> C, min |-> 1, many |-> TRUE]>>
        ZeroOrMore(C) == <<[class |-> C, min |-> 0, many |-> TRUE]>>
        Lit(w) == [i \in 1..Len(w) |-> [class |-> {w[i]}, min |-> 1, many |-> FALSE]]
        s == ZeroOrMore(Whitespace)
        DateChars == Digits \cup {"/"}
        TargetChars == Digits \cup {":", "~"}
        PaceChars == Digits \cup {":", "~", "!"}
        RestChars == Digits \cup {"'", "\""}
        \* A-I and the full-width A-I
        Letters == {"A", "B", "C", "D", "E", "F", "G", "H", "I",
                    "UFF21", "UFF22", "UFF23", "UFF24", "UFF25", "UFF26", "UFF27",
                    "UFF28", "UFF29"}
        SUB == Lit(<<"S", "U", "B">>)
        reps(d) == Lit(d) \o s \o OneOf({"x", "X", "U00D7"}) \o s \o OneOrMore(Digits)
        range == s \o OneOf({"~"}) \o s \o OneOrMore(Digits)
        pace == s \o OneOf({"@"}) \o s \o OneOrMore(PaceChars) \o Lit(<<"/", "k", "m">>)
    IN  [\* /(Week\s*\d+)\s+([\d/]+\s*[~-]\s*[\d/]+)/i
         week |-> <<OneOf({"W", "w"}) \o OneOf({"E", "e"}) \o OneOf({"E", "e"})
                    \o OneOf({"K", "k"}) \o s \o OneOrMore(Digits) \o OneOrMore(Whitespace)
                    \o OneOrMore(DateChars) \o s \o OneOf({"~", "-"}) \o s
                    \o OneOrMore(DateChars)>>,
         \* /^([A-I...])\s*SUB\s*([\d:~]+)/gm
         header |-> <<OneOf(Letters) \o s \o SUB \o s \o OneOrMore(TargetChars)>>,
         \* /^S\s+SUB\s*([\d:~]+)/m
         sHeader |-> <<OneOf({"S"}) \o OneOrMore(Whitespace) \o SUB \o s \o OneOrMore(TargetChars)>>,
         \* /(1200|800)\s*[xX...]\s*(\d+)(?:\s*~\s*(\d+))?\s*@\s*([\d:~!]+)\/km/
         interval |-> <<reps(<<"1", "2", "0", "0">>) \o range \o pace,
                        reps(<<"1", "2", "0", "0">>) \o pace,
                        reps(<<"8", "0", "0">>) \o range \o pace,
                        reps(<<"8", "0", "0">>) \o pace>>,
         \* /R\s*[:...]\s*([\d'"]+)/
         rest |-> <<OneOf({"R"}) \o s \o OneOf({":", "UFF1A"}) \o s \o OneOrMore(RestChars)>>,
         \* /...\s*([A-ISa-is])\s*.../i of isGroupSelection
         selection |-> <<Lit(<<"U8AB2", "U8868">>) \o s
                         \o OneOf({"A", "B", "C", "D", "E", "F", "G", "H", "I", "S",
                                   "a", "b", "c", "d", "e", "f", "g", "h", "i", "s"})
                         \o s \o Lit(<<"U7D44">>)>>,
         \* /([01]?\d)[/...]([0-3]?\d)/ of the schedule query
         date |-> <<OneOf({"0", "1"}) \o OneOf(Digits) \o OneOf({"/", "U6708"})
                    \o OneOf({"0", "1", "2", "3"}) \o OneOf(Digits),
                    OneOf({"0", "1"}) \o OneOf(Digits) \o OneOf({"/", "U6708"})
                    \o OneOf(Digits),
                    OneOf(Digits) \o OneOf({"/", "U6708"})
                    \o OneOf({"0", "1", "2", "3"}) \o OneOf(Digits),
                    OneOf(Digits) \o OneOf({"/", "U6708"}) \o OneOf(Digits)>>]

\* the places after the pieces of an alternative matched at place i of s,
\* 0 from the piece that does not fit
RECURSIVE matchAt(_, _, _)
matchAt(s, i, pieces) ==
    IF pieces = <<>> THEN <<>>
    ELSE LET piece == Head(pieces)
             next == IF i = 0 THEN 0
                     ELSE IF piece.many
                     THEN (IF run(s, i, piece.class) - i >= piece.min
                           THEN run(s, i, piece.class) ELSE 0)
                     ELSE (IF i <= Len(s) /\ s[i] \in piece.class THEN i + 1 ELSE 0)
         IN  CHOOSE r \in {<<j>> \o matchAt(s, j, Tail(pieces)) : j \in {next}} : TRUE

\* String.prototype.match without the g flag, the starts taken from a set:
\* the leftmost start at which an alternative fits, the first such
\* alternative, and the places after its pieces; index 0 without a match
regexMatch(s, alternatives, starts) ==
    LET fits(i, k) == matchAt(s, i, alternatives[k])[Len(alternatives[k])] # 0
        found == {i \in starts : \E k \in DOMAIN alternatives : fits(i, k)}
        index == CHOOSE i \in found : \A j \in found : i <= j
        alt(i) == CHOOSE k \in DOMAIN alternatives :
                    fits(i, k) /\ \A l \in 1..(k - 1) : ~fits(i, l)
    IN  IF found = {} THEN [index |-> 0, alt |-> 0, ends |-> <<>>]
        ELSE CHOOSE r \in UNION {{[index |-> i, alt |-> k,
                                   ends |-> matchAt(s, i, alternatives[k])] :
                                     k \in {alt(i)}} : i \in {index}} : TRUE

\* lines 110-112: the week label and the period without its white space;
\* found is FALSE when nothing matches
weekMatch(text) ==
    LET NotWs(x) == x \notin Whitespace
    IN  CHOOSE r \in
          {IF m.index = 0
           THEN [found |-> FALSE, weekLabel |-> <<"U672C", "U9031">>, periodStr |-> <<>>]
           ELSE [found |-> TRUE,
                 weekLabel |-> trim(SubSeq(text, m.index, m.ends[6] - 1)),
                 periodStr |-> SelectSeq(SubSeq(text, m.ends[7], m.ends[12] - 1), NotWs)] :
             m \in {regexMatch(text, PATTERNS.week, 1..Len(text))}} : TRUE

\* /全馬組[\s\S]*?(?=半馬組|$)/: the full-marathon block, <<>> without one
fullMarathonBlock(text) ==
    LET from == indexOf(text, <<"U5168", "U99AC", "U7D44">>, 1)
        to == indexOf(text, <<"U534A", "U99AC", "U7D44">>, from + 3)
    IN  IF from = 0 THEN <<>>
        ELSE SubSeq(text, from, IF to = 0 THEN Len(text) ELSE to - 1)

\* mutant of groupHeaders: the header of group S stays in front
groupHeaders_SFirst(block) ==
    LET \* c.charCodeAt(0) - 0xFEE0
        HalfWidth == [UFF21 |-> "A", UFF22 |-> "B", UFF23 |-> "C", UFF24 |-> "D",
                      UFF25 |-> "E", UFF26 |-> "F", UFF27 |-> "G", UFF28 |-> "H",
                      UFF29 |-> "I"]
        lineStarts == {i \in 1..Len(block) : i = 1 \/ block[i - 1] = "\n"}
        target(m) == <<"S", "U", "B", " ">> \o SubSeq(block, m.ends[6], m.ends[7] - 1)
                     \o <<" ">>
        matches == {m \in {regexMatch(block, PATTERNS.header, {i}) : i \in lineStarts} :
                        m.index # 0}
        found == {[name |-> IF block[m.index] \in DOMAIN HalfWidth
                            THEN HalfWidth[block[m.index]] ELSE block[m.index],
                   target |-> target(m), index |-> m.index] : m \in matches}
        sMatches == {m \in {regexMatch(block, PATTERNS.sHeader, lineStarts)} : m.index # 0}
        all == found \cup
               {[name |-> "S", target |-> target(m),
                 index |-> indexOf(block, SubSeq(block, m.index, m.ends[7] - 1), 1)] :
                    m \in sMatches}
        before(x, h) == (x.name = "S" /\ h.name # "S")
                        \/ ((x.name = "S") = (h.name = "S") /\ x.index < h.index)
    IN  [k \in 1..Cardinality(all) |->
            CHOOSE h \in all : Cardinality({x \in all : before(x, h)}) = k - 1]

\* lines 119-145: the group headers of the block, by index
groupHeaders(block) ==
    LET \* c.charCodeAt(0) - 0xFEE0
        HalfWidth == [UFF21 |-> "A", UFF22 |-> "B", UFF23 |-> "C", UFF24 |-> "D",
                      UFF25 |-> "E", UFF26 |-> "F", UFF27 |-> "G", UFF28 |-> "H",
                      UFF29 |-> "I"]
        lineStarts == {i \in 1..Len(block) : i = 1 \/ block[i - 1] = "\n"}
        target(m) == <<"S", "U", "B", " ">> \o SubSeq(block, m.ends[6], m.ends[7] - 1)
                     \o <<" ">>
        matches == {m \in {regexMatch(block, PATTERNS.header, {i}) : i \in lineStarts} :
                        m.index # 0}
        found == {[name |-> IF block[m.index] \in DOMAIN HalfWidth
                            THEN HalfWidth[block[m.index]] ELSE block[m.index],
                   target |-> target(m), index |-> m.index] : m \in matches}
        sMatches == {m \in {regexMatch(block, PATTERNS.sHeader, lineStarts)} : m.index # 0}
        all == found \cup
               {[name |-> "S", target |-> target(m),
                 index |-> indexOf(block, SubSeq(block, m.index, m.ends[7] - 1), 1)] :
                    m \in sMatches}
    IN  [k \in 1..Cardinality(all) |->
            CHOOSE h \in all : Cardinality({x \in all : x.index < h.index}) = k - 1]

\* line 155: the interval line in the span of one group
intervalMatch(span) ==
    CHOOSE r \in
      {IF m.index = 0
       THEN [found |-> FALSE, distance |-> <<>>, repsMin |-> <<>>, repsMax |-> <<>>,
             pace |-> <<>>]
       ELSE LET d == IF m.alt \in {1, 2} THEN 4 ELSE 3
                ranged == m.alt \in {1, 3}
                o == IF ranged THEN d + 8 ELSE d + 4
            IN  [found |-> TRUE,
                 distance |-> SubSeq(span, m.index, m.ends[d] - 1),
                 repsMin |-> SubSeq(span, m.ends[d + 3], m.ends[d + 4] - 1),
                 repsMax |-> IF ranged THEN SubSeq(span, m.ends[d + 7], m.ends[d + 8] - 1)
                             ELSE <<>>,
                 pace |-> SubSeq(span, m.ends[o + 3], m.ends[o + 4] - 1)] :
         m \in {regexMatch(span, PATTERNS.interval, 1..Len(span))}} : TRUE

\* lines 175-176: the rest in the span of one group, '?' without a match
restOf(span) ==
    CHOOSE r \in
      {IF m.index = 0 THEN <<"?">> ELSE SubSeq(span, m.ends[4], m.ends[5] - 1) :
         m \in {regexMatch(span, PATTERNS.rest, 1..Len(span))}} : TRUE

\* mutant of parseGroup: the lap times are those of all the pace tokens
parseGroup_AllTokens(header, span) ==
    LET OneForBang(x) == IF x = "!" THEN "1" ELSE x
        Truthy(p) == paceToSeconds(p) \notin {NoSeconds, 0}
    IN  CHOOSE r \in UNION {
          {[name |-> header.name, target |-> header.target, distance |-> m.distance,
            reps |-> m.repsMin, paces |-> SelectSeq(paceRange, Truthy),
            lapTimes |-> [i \in 1..Len(paceRange) |->
                            paceToLapTime(paceToSeconds(paceRange[i]))],
            rest |-> restOf(span),
            lapsPerRep |-> IF m.distance = <<"1", "2", "0", "0">> THEN 6 ELSE 4] :
              paceRange \in {split([i \in 1..Len(m.pace) |-> OneForBang(m.pace[i])], "~")}} :
          m \in {intervalMatch(span)}} : TRUE

\* mutant of parseGroup: a '!' of the pace field is kept
parseGroup_KeepsBang(header, span) ==
    LET \* .filter(p => p.seconds): neither null nor 0; a token with seconds
        \* holds a ':' and is displayed as it is
        Truthy(p) == paceToSeconds(p) \notin {NoSeconds, 0}
    IN  CHOOSE r \in UNION {
          {[name |-> header.name, target |-> header.target, distance |-> m.distance,
            reps |-> IF m.repsMax # <<>>
                     THEN m.repsMin \o <<" ", "~">> \o m.repsMax \o <<" ">>
                     ELSE m.repsMin,
            paces |-> paces,
            lapTimes |-> [i \in 1..Len(paces) |-> paceToLapTime(paceToSeconds(paces[i]))],
            rest |-> restOf(span),
            lapsPerRep |-> IF m.distance = <<"1", "2", "0", "0">> THEN 6 ELSE 4] :
              \* paceRaw.split('~'); the tokens hold no white space to trim
              paces \in {SelectSeq(split(m.pace, "~"), Truthy)}} :
          m \in {intervalMatch(span)}} : TRUE

\* lines 158-186: the group pushed for a header whose span holds an interval
parseGroup(header, span) ==
    LET OneForBang(x) == IF x = "!" THEN "1" ELSE x
        \* .filter(p => p.seconds): neither null nor 0; a token with seconds
        \* holds a ':' and is displayed as it is
        Truthy(p) == paceToSeconds(p) \notin {NoSeconds, 0}
    IN  CHOOSE r \in UNION {
          {[name |-> header.name, target |-> header.target, distance |-> m.distance,
            reps |-> IF m.repsMax # <<>>
                     THEN m.repsMin \o <<" ", "~">> \o m.repsMax \o <<" ">>
                     ELSE m.repsMin,
            paces |-> paces,
            lapTimes |-> [i \in 1..Len(paces) |-> paceToLapTime(paceToSeconds(paces[i]))],
            rest |-> restOf(span),
            lapsPerRep |-> IF m.distance = <<"1", "2", "0", "0">> THEN 6 ELSE 4] :
              \* paceRaw.split('~'); the tokens hold no white space to trim
              paces \in {SelectSeq(split([i \in 1..Len(m.pace) |-> OneForBang(m.pace[i])],
                                         "~"), Truthy)}} :
          m \in {intervalMatch(span)}} : TRUE

\* lines 107-193
parseSchedule(text) ==
    CHOOSE r \in UNION {
      {LET span(i) == SubSeq(block, headers[i].index,
                             IF i < Len(headers) THEN headers[i + 1].index - 1
                             ELSE Len(block))
           kept == {i \in 1..Len(headers) : intervalMatch(span(i)).found}
           nth(k) == CHOOSE i \in kept : Cardinality({x \in kept : x < i}) = k - 1
           groups == [k \in 1..Cardinality(kept) |->
                        CHOOSE g \in UNION {{parseGroup(headers[i], sp) : sp \in {span(i)}} :
                                              i \in {nth(k)}} : TRUE]
       IN  IF block = <<>> \/ kept = {} THEN NoSchedule
           ELSE [weekLabel |-> weekMatch(text).weekLabel,
                 periodStr |-> weekMatch(text).periodStr,
                 groups |-> groups] :
         headers \in {groupHeaders(block)}} :
      block \in {fullMarathonBlock(text)}} : TRUE

\* the pieces of the texts of the model: a title, two week lines, the
\* full-marathon marker, four groups and a half-marathon part
PIECES ==
    [title |-> <<"U8A13", "U7DF4", "U9031", "U671F", " ">>,
     week9 |-> <<"W", "e", "e", "k", "9", " ", " ", "0", "2", "/", "2", "3",
                 "-", "0", "3", "/", "0", "1", "\n">>,
     week10 |-> <<"w", "e", "e", "k", " ", "1", "0", " ", "1", "2", "/", "2",
                 "9", " ", "~", " ", "0", "1", "/", "0", "4", "\n">>,
     marker |-> <<"U5168", "U99AC", "U7D44", " ", "U9031", "U56DB", "\n">>,
     A |-> <<"A", " ", "S", "U", "B", " ", "3", ":", "0", "0", "\n", "1", "2",
            "0", "0", " ", "x", " ", "5", "~", "6", " ", "@", " ", "0", "3",
            ":", "5", "0", "~", "0", "3", ":", "4", "5", "/", "k", "m", " ",
            "R", ":", "2", "'", "\n">>,
     B |-> <<"UFF22", " ", "S", "U", "B", " ", "3", ":", "3", "0", "\n", "8",
            "0", "0", "x", "8", "@", "0", "4", ":", "!", "5", "/", "k", "m",
            "\n">>,
     C |-> <<"C", " ", "S", "U", "B", " ", "4", ":", "0", "0", "\n", "w", "a",
            "r", "m", " ", "u", "p", " ", "f", "r", "e", "e", "j", "o", "g",
            "\n">>,
     S |-> <<"S", " ", " ", "S", "U", "B", " ", "2", ":", "5", "0", "\n", "1",
            "2", "0", "0", " ", "X", " ", "4", " ", "@", " ", "0", "3", "5",
            "0", "~", "0", "0", ":", "0", "0", "/", "k", "m", "\n">>,
     half |-> <<"U534A", "U99AC", "U7D44", "\n", "E", " ", "S", "U", "B", " ",
               "1", ":", "3", "0", "\n", "1", "2", "0", "0", " ", "x", " ",
               "3", " ", "@", " ", "0", "5", ":", "0", "0", "/", "k", "m",
               "\n">>]

\* the text t filled up to n characters
filled(t, n) == t \o Chars(IF n > Len(t) THEN n - Len(t) ELSE 0, ".")

\* the texts read by the gate and by the parser
ScheduleTexts ==
    LET P == PIECES
        lengths == {0, MIN_SCHEDULE_LENGTH - 1, MIN_SCHEDULE_LENGTH,
                    MIN_SCHEDULE_LENGTH + 1}
    IN  {filled(t \o w \o m \o a \o b \o c \o g \o h, n) :
            t \in {<<>>, P.title}, w \in {<<>>, P.week9, P.week10},
            m \in {<<>>, P.marker}, a \in {<<>>, P.A}, b \in {<<>>, P.B},
            c \in {<<>>, P.C}, g \in {<<>>, P.S}, h \in {<<>>, P.half},
            n \in lengths}

\* the paces MM:SS, 00:00 to 59:59
SchedulePaces ==
    {<<a, b, ":", c, d>> : a \in {"0", "1", "2", "3", "4", "5"}, b \in Digits,
                           c \in {"0", "1", "2", "3", "4", "5"}, d \in Digits}

\* isTrainingSchedule, lines 73-80, is applied to the text
readGate ==
    /\ sched.step = "text"
    /\ sched' = [sched EXCEPT !.step = "gated",
                              !.isSchedule = isTrainingSchedule(sched.text)]
    /\ UNCHANGED <<geminiVars, flex, storageBySource, msg, webVars>>

\* parseSchedule, lines 107-193, is applied to the text
readSchedule ==
    /\ sched.step = "gated"
    /\ sched' = [sched EXCEPT !.step = "parsed", !.parsed = parseSchedule(sched.text)]
    /\ UNCHANGED <<geminiVars, flex, storageBySource, msg, webVars>>

\* parseSchedule, lines 166-172: one pace token is converted
readPace ==
    /\ sched.step = "pace"
    /\ sched' = [sched EXCEPT
                   !.step = "converted",
                   !.seconds = paceToSeconds(sched.pace),
                   !.lapTime = paceToLapTime(paceToSeconds(sched.pace))]
    /\ UNCHANGED <<geminiVars, flex, storageBySource, msg, webVars>>

(***************************************************************************)
(* lib/schedule.js, isDateInPeriod.  A Date is the number of its day       *)
(* (days since 1970-01-01, local time) and the milliseconds since the      *)
(* start of that day; ref holds getFullYear(), getMonth(), getDate() and   *)
(* the milliseconds of the day of the reference date.                      *)
(***************************************************************************)
\* new Date(year, month, date): the day number; a month outside 0..11 and a
\* date outside the month are carried over as Date does
DateOf(year, month, date) ==
    LET y == year + (month \div 12)
        m == month % 12
        leap == (y % 4 = 0 /\ y % 100 # 0) \/ y % 400 = 0
        before == 365 * (y - 1970) + ((y - 1969) \div 4) - ((y - 1901) \div 100)
                  + ((y - 1601) \div 400)
        cumulated == <<0, 31, 59, 90, 120, 151, 181, 212, 243, 273, 304, 334>>
    IN  before + cumulated[m + 1] + (IF m >= 2 /\ leap THEN 1 ELSE 0) + date - 1

\* getFullYear(), getMonth() and getDate() of the day number n
civilOf(n) ==
    CHOOSE c \in UNION {{[year |-> y, month |-> m, date |-> n - DateOf(y, m, 1) + 1] :
                            m \in {k \in 0..11 : /\ DateOf(y, k, 1) <= n
                                                 /\ n < DateOf(y, k + 1, 1)}} :
                         y \in {x \in 2020..2030 : /\ DateOf(x, 0, 1) <= n
                                                   /\ n < DateOf(x + 1, 0, 1)}} : TRUE

\* mutant of isDateInPeriod: the end is the start of its day
isDateInPeriod_StartOfEndDay(periodStr, ref) ==
    LET Sep(c) == c \in Whitespace \cup {"~", "-"}
        NonEmpty(x) == x # <<>>
        parts == SelectSeq(split([i \in 1..Len(periodStr) |->
                                    IF Sep(periodStr[i]) THEN "-" ELSE periodStr[i]], "-"),
                           NonEmpty)
        isNaN(str) == \E i \in 1..Len(str) : str[i] \notin Digits
        Number(str) == IF str = <<>> THEN 0 ELSE parseInt(str)
        valid(str) == /\ Len(split(str, "/")) >= 2
                      /\ ~isNaN(split(str, "/")[1]) /\ ~isNaN(split(str, "/")[2])
        parseDate(str) == DateOf(ref.year, Number(split(str, "/")[1]) - 1,
                                 Number(split(str, "/")[2]))
    IN  /\ periodStr # <<>>
        /\ Len(parts) = 2
        /\ valid(parts[1]) /\ valid(parts[2])
        /\ \E start \in {parseDate(parts[1])}, end \in {parseDate(parts[2])},
              baseDate \in {DateOf(ref.year, ref.month, ref.date)} :
              /\ baseDate >= start
              /\ baseDate < end \/ (baseDate = end /\ ref.ms = 0)

\* lines 265-294
isDateInPeriod(periodStr, ref) ==
    LET \* periodStr.split(/[\s~-]/).filter(Boolean)
        Sep(c) == c \in Whitespace \cup {"~", "-"}
        NonEmpty(x) == x # <<>>
        parts == SelectSeq(split([i \in 1..Len(periodStr) |->
                                    IF Sep(periodStr[i]) THEN "-" ELSE periodStr[i]], "-"),
                           NonEmpty)
        \* Number(str) of a text of decimal digits and letters, without sign,
        \* point, exponent or the prefix of a base: NaN unless every
        \* character is a digit, and Number('') is 0
        isNaN(str) == \E i \in 1..Len(str) : str[i] \notin Digits
        Number(str) == IF str = <<>> THEN 0 ELSE parseInt(str)
        \* const [m, d] = str.split('/').map(Number): without a '/' d is
        \* undefined, and with undefined or NaN the Date is invalid, so that
        \* every comparison fails; what follows a second '/' is not read
        valid(str) == /\ Len(split(str, "/")) >= 2
                      /\ ~isNaN(split(str, "/")[1]) /\ ~isNaN(split(str, "/")[2])
        parseDate(str) == DateOf(ref.year, Number(split(str, "/")[1]) - 1,
                                 Number(split(str, "/")[2]))
        \* start.setFullYear(currentYear - 1), end.setFullYear(currentYear + 1)
        setFullYear(n, year) == DateOf(year, civilOf(n).month, civilOf(n).date)
    IN  /\ periodStr # <<>>
        /\ Len(parts) = 2
        /\ valid(parts[1]) /\ valid(parts[2])
        /\ \E start \in {parseDate(parts[1])}, end \in {parseDate(parts[2])},
              baseDate \in {DateOf(ref.year, ref.month, ref.date)} :
              \* start is at 00:00:00.000 and end at 23:59:59.999 of their days
              \E from \in {IF end < start /\ ref.month < 2
                           THEN setFullYear(start, ref.year - 1) ELSE start},
                 to \in {IF end < start /\ ~(ref.month < 2)
                         THEN setFullYear(end, ref.year + 1) ELSE end} :
                 /\ baseDate > from \/ (baseDate = from /\ ref.ms >= 0)
                 /\ baseDate < to \/ (baseDate = to /\ ref.ms <= DAY_MS - 1)

\* the periods read by isDateInPeriod: null, one part, three parts, parts
\* without a '/', parts with a year, all the pairs of four days, and periods
\* with spaces around the separator, with numbers of one digit, with an
\* empty day or month, with a letter in a number, and with days that their
\* months do not have (30 and 29 February)
SchedulePeriods ==
    LET days == {<<"0", "1", "/", "0", "4">>, <<"0", "2", "/", "2", "3">>,
                 <<"0", "3", "/", "0", "1">>, <<"1", "2", "/", "2", "9">>}
    IN  {<<>>, <<"0", "2", "/", "2", "3">>,
         <<"0", "2", "/", "2", "3", "-", "0", "3", "/", "0", "1",
                    "-", "0", "3", "/", "0", "5">>,
         <<"0", "2", "2", "3", "-", "0", "3", "0", "1">>,
         <<"0", "2", "/", "2", "3", "/", "2", "0", "2", "5", "-",
                    "0", "3", "/", "0", "1", "/", "2", "0", "2", "5">>,
         <<"1", "2", "/", "2", "9", " ", "~", " ", "0", "1", "/", "0", "4">>,
         <<"2", "/", "2", "3", "-", "3", "/", "1">>,
         <<"0", "2", "/", "-", "0", "3", "/", "0", "1">>,
         <<"/", "2", "3", "-", "0", "3", "/", "0", "1">>,
         <<"0", "2", "/", "2", "a", "-", "0", "3", "/", "0", "1">>,
         <<"0", "2", "/", "2", "3", "-", "a", "/", "0", "1">>,
         <<"0", "2", "/", "3", "0", "-", "0", "3", "/", "0", "1">>,
         <<"0", "2", "/", "2", "3", "-", "0", "2", "/", "2", "9">>,
         <<"0", "2", "/", "2", "9", "~", "0", "1", "/", "0", "4">>}
        \cup {a \o <<sep>> \o b : a \in days, b \in days, sep \in {"-", "~"}}

\* the reference dates: days of 2024 and 2025 at midnight, at noon and in
\* the last millisecond
ScheduleRefs ==
    [year : {2024, 2025}, month : 0..11, date : {1, 3, 4, 5, 22, 23, 24, 28},
     ms : {0, DAY_MS \div 2, DAY_MS - 1}]

\* isDateInPeriod, lines 265-294, is applied to the period and the date
readPeriod ==
    /\ sched.step = "period"
    /\ sched' = [sched EXCEPT !.step = "checked",
                              !.inPeriod = isDateInPeriod(sched.period, sched.ref)]
    /\ UNCHANGED <<geminiVars, flex, storageBySource, msg, webVars>>

(***************************************************************************)
(* lib/imageHandler.js (enqueueImage) and the webhook route of index.js.   *)
(* An image is the number of its arrival, which also names the timer that  *)
(* its arrival arms.                                                       *)
(***************************************************************************)
MaxImages == 3

MaxDeliveries == 2

\* a group chat, the source of a message beside the chat of the user alone
GROUP == "g1"

\* buildImageSystemContext, lines 46-63, without a list of restaurants: the
\* instruction for a group chat or for the coach, and the text sent with the
\* image
buildImageSystemContext(textWithImage, isTriggered, isGroupChat) ==
    <<IF ~isTriggered /\ isGroupChat THEN "[filter]" ELSE "[coach]">>
    \o (IF textWithImage # <<>> THEN <<"\n", "\n", "[note]">> \o textWithImage
        ELSE <<>>)

\* Array.prototype.join
RECURSIVE join(_, _)
join(parts, separator) ==
    IF parts = <<>> THEN <<>>
    ELSE IF Len(parts) = 1 THEN parts[1]
    ELSE parts[1] \o separator \o join(Tail(parts), separator)

\* lines 98-100: the prompt made of the images and the texts of a batch
combinedPrompt(finalBatch) ==
    <<"[analyse]", <<"1", "2", "3", "4", "5", "6", "7", "8", "9">>[Len(finalBatch.images)]>>
    \o (IF Len(finalBatch.texts) > 0
        THEN <<"[said]", "\n">> \o join(finalBatch.texts, <<"\n">>)
        ELSE <<>>)

\* mutant of enqueueImage: the timer of the batch is not cleared
enqueueImage_KeepsTimer(userId, sourceId, textWithImage, imgSystemContext) ==
    /\ arrived < MaxImages
    /\ \/ /\ userId = NoUser                     \* if (!batchKey) return
          /\ UNCHANGED <<imageBatchQueue, timers, arrived>>
       \/ /\ userId # NoUser
          /\ LET base64Str == arrived + 1
                 batchData == IF userId \in DOMAIN imageBatchQueue
                              THEN imageBatchQueue[userId]
                              ELSE [images |-> <<>>, texts |-> <<>>,
                                    systemContexts |-> <<>>, targetId |-> sourceId,
                                    timer |-> 0, chats |-> <<>>]
                 pushed == [batchData EXCEPT
                              !.images = Append(@, base64Str),
                              !.texts = IF textWithImage # <<>>
                                        THEN Append(@, textWithImage) ELSE @,
                              !.systemContexts = IF imgSystemContext # <<>>
                                                 THEN Append(@, imgSystemContext)
                                                 ELSE @,
                              !.timer = base64Str,
                              !.chats = Append(@, sourceId)]
             IN  /\ imageBatchQueue' = [k \in DOMAIN imageBatchQueue \cup {userId} |->
                                           IF k = userId THEN pushed
                                           ELSE imageBatchQueue[k]]
                 /\ timers' = timers
                              \cup {[id |-> base64Str, batchKey |-> userId]}
          /\ arrived' = arrived + 1

\* enqueueImage, lines 70-96 and 131-132, called at lib/handler.js:440 with
\* the system context of buildImageSystemContext
enqueueImage(userId, sourceId, textWithImage, imgSystemContext) ==
    /\ arrived < MaxImages
    /\ \/ /\ userId = NoUser                     \* if (!batchKey) return
          /\ UNCHANGED <<imageBatchQueue, timers, arrived>>
       \/ /\ userId # NoUser
          /\ LET base64Str == arrived + 1
                 batchData == IF userId \in DOMAIN imageBatchQueue
                              THEN imageBatchQueue[userId]
                              ELSE [images |-> <<>>, texts |-> <<>>,
                                    systemContexts |-> <<>>, targetId |-> sourceId,
                                    timer |-> 0, chats |-> <<>>]
                 pushed == [batchData EXCEPT
                              !.images = Append(@, base64Str),
                              !.texts = IF textWithImage # <<>>
                                        THEN Append(@, textWithImage) ELSE @,
                              !.systemContexts = IF imgSystemContext # <<>>
                                                 THEN Append(@, imgSystemContext)
                                                 ELSE @,
                              \* clearTimeout(batchData.timer), then setTimeout
                              !.timer = base64Str,
                              \* bookkeeping: the chat every image came from
                              !.chats = Append(@, sourceId)]
             IN  /\ imageBatchQueue' = [k \in DOMAIN imageBatchQueue \cup {userId} |->
                                           IF k = userId THEN pushed
                                           ELSE imageBatchQueue[k]]
                 /\ timers' = {t \in timers : t.id # batchData.timer}
                              \cup {[id |-> base64Str, batchKey |-> userId]}
          /\ arrived' = arrived + 1

\* mutant of timerFires: the batch stays in the queue
timerFires_KeepsBatch(t) ==
    /\ t \in timers
    /\ timers' = timers \ {t}
    /\ imageBatchQueue' = imageBatchQueue
    /\ flushes' =
         IF t.batchKey \in DOMAIN imageBatchQueue
            /\ imageBatchQueue[t.batchKey].images # <<>>
         THEN LET finalBatch == imageBatchQueue[t.batchKey]
              IN  Append(flushes,
                         [batchKey |-> t.batchKey, images |-> finalBatch.images,
                          targetId |-> finalBatch.targetId,
                          combinedPrompt |-> combinedPrompt(finalBatch),
                          combinedContext |-> join(dedupe(finalBatch.systemContexts, {}),
                                                   <<"\n", "\n">>),
                          step |-> "showLoadingAnimation", slot |-> 0,
                          calls |-> <<>>,
                          chats |-> finalBatch.chats])
         ELSE flushes
    /\ UNCHANGED <<geminiVars, flex, sched, storageBySource, msg, intent, pending, arrived,
                   processedRetries, handled, background>>

\* the callback of setTimeout up to its first await, lines 96-110: the batch
\* is taken out of the queue and the prompt is made of it
timerFires(t) ==
    /\ t \in timers
    /\ timers' = timers \ {t}
    /\ imageBatchQueue' = [k \in DOMAIN imageBatchQueue \ {t.batchKey} |->
                              imageBatchQueue[k]]
    /\ flushes' =
         IF t.batchKey \in DOMAIN imageBatchQueue
            /\ imageBatchQueue[t.batchKey].images # <<>>
         THEN LET finalBatch == imageBatchQueue[t.batchKey]
              IN  Append(flushes,
                         [batchKey |-> t.batchKey, images |-> finalBatch.images,
                          targetId |-> finalBatch.targetId,
                          combinedPrompt |-> combinedPrompt(finalBatch),
                          combinedContext |-> join(dedupe(finalBatch.systemContexts, {}),
                                                   <<"\n", "\n">>),
                          step |-> "showLoadingAnimation", slot |-> 0,
                          calls |-> <<>>,
                          chats |-> finalBatch.chats])
         ELSE flushes
    /\ UNCHANGED <<geminiVars, flex, sched, storageBySource, msg, intent, pending, arrived,
                   processedRetries, handled, background>>

(***************************************************************************)
(* lib/geminiParser.js (src/unnamed/part_006, lines 196-243):              *)
(* parseUserIntent.  The response of the model is a text of one-character  *)
(* tokens in which a JSON value is one lexeme, the token that names it in  *)
(* IntentLexemes; three backticks are written "^^^".                       *)
(***************************************************************************)
\* VALID_CUISINES, line 202
VALID_CUISINES ==
    {<<"U4E2D", "U5F0F">>, <<"U65E5", "U5F0F">>, <<"U97D3", "U5F0F">>,
     <<"U897F", "U5F0F">>, <<"U6CF0", "U5F0F">>, <<"U5496", "U5561", "U751C", "U9EDE">>,
     <<"U7D20", "U98DF">>, <<"U4E0D", "U9650">>}

\* the JSON values the lexemes stand for: objects with their location and
\* cuisine (Undefined for a key that is missing), null, a number, an array;
\* no string of theirs holds a backtick
IntentLexemes ==
    [xinyi |-> [kind |-> "object", location |-> Str(<<"U4FE1", "U7FA9", "U5340">>),
                cuisine |-> Str(<<"U65E5", "U5F0F">>)],
     italian |-> [kind |-> "object", location |-> Null,
                  cuisine |-> Str(<<"U7FA9", "U5F0F">>)],
     padded |-> [kind |-> "object", location |-> Str(<<" ", "a", " ", "b", "\n">>),
                 cuisine |-> Str(<<" ", "U7D20", "U98DF", " ">>)],
     nowhere |-> [kind |-> "object", location |-> Str(<<>>),
                  cuisine |-> Str(<<"U4E0D", "U9650">>)],
     blank |-> [kind |-> "object", location |-> Str(<<" ", " ">>),
                cuisine |-> Str(<<>>)],
     numbers |-> [kind |-> "object", location |-> Num, cuisine |-> Num],
     nulls |-> [kind |-> "object", location |-> Null, cuisine |-> Null],
     empty |-> [kind |-> "object", location |-> Undefined, cuisine |-> Undefined],
     null |-> [kind |-> "null", location |-> Undefined, cuisine |-> Undefined],
     one |-> [kind |-> "number", location |-> Undefined, cuisine |-> Undefined],
     array |-> [kind |-> "array", location |-> Undefined, cuisine |-> Undefined]]

\* text.replace(/```json?\s*|\s*```/g, ''), line 229, from place i on: at
\* every place the first alternative is tried before the second, what
\* matches is dropped and the scan goes on after it
RECURSIVE stripFences(_, _)
stripFences(s, i) ==
    IF i > Len(s) THEN <<>>
    ELSE IF at(s, i, FENCE \o <<"j", "s", "o">>)
    THEN stripFences(s, run(s, IF at(s, i + 6, <<"n">>) THEN i + 7 ELSE i + 6,
                            Whitespace))
    ELSE IF at(s, run(s, i, Whitespace), FENCE)
    THEN stripFences(s, run(s, i, Whitespace) + 3)
    ELSE <<s[i]>> \o stripFences(s, i + 1)

\* JSON.parse of a text of the model: the value of its one lexeme, "throw"
\* for a SyntaxError
IntentParse(jsonStr) ==
    IF Len(jsonStr) = 1 /\ jsonStr[1] \in DOMAIN IntentLexemes
    THEN IntentLexemes[jsonStr[1]]
    ELSE [kind |-> "throw", location |-> Undefined, cuisine |-> Undefined]

\* parseUserIntent with VALID_CUISINES.includes(cuisine) left out
parseUserIntentResult_AnyCuisine(apiKey, userMessage, response) ==
    LET fallback == [location |-> Null, cuisine |-> Null]
    IN  IF ~apiKey \/ trim(userMessage) = <<>> THEN fallback
        ELSE IF response = <<"throw">> THEN fallback
        ELSE IF trim(response) = <<>> THEN fallback
        ELSE CHOOSE r \in
               {IF parsed.kind \in {"throw", "null"} THEN fallback
                ELSE [location |-> IF parsed.location.type = "string"
                                      /\ trim(parsed.location.value) # <<>>
                                   THEN Str(trim(parsed.location.value))
                                   ELSE Null,
                      cuisine |-> IF parsed.cuisine.type = "string"
                                  THEN Str(trim(parsed.cuisine.value))
                                  ELSE Str(<<"U4E0D", "U9650">>)] :
                  parsed \in {IntentParse(trim(stripFences(trim(response), 1)))}} : TRUE

\* parseUserIntent, lines 215-241: what it resolves to for the key, the
\* message and the text of the response of the model, <<"throw">> when
\* generateContent or response.text() throws.  A property of null is read
\* with a TypeError, which the catch of line 237 turns into the fallback.
parseUserIntentResult(apiKey, userMessage, response) ==
    LET fallback == [location |-> Null, cuisine |-> Null]
    IN  IF ~apiKey \/ trim(userMessage) = <<>> THEN fallback
        ELSE IF response = <<"throw">> THEN fallback
        ELSE IF trim(response) = <<>> THEN fallback
        ELSE CHOOSE r \in
               {IF parsed.kind \in {"throw", "null"} THEN fallback
                ELSE [location |-> IF parsed.location.type = "string"
                                      /\ trim(parsed.location.value) # <<>>
                                   THEN Str(trim(parsed.location.value))
                                   ELSE Null,
                      cuisine |-> IF parsed.cuisine.type = "string"
                                     /\ trim(parsed.cuisine.value) \in VALID_CUISINES
                                  THEN Str(trim(parsed.cuisine.value))
                                  ELSE Str(<<"U4E0D", "U9650">>)] :
                  parsed \in {IntentParse(trim(stripFences(trim(response), 1)))}} : TRUE

\* the texts of the model: a lead, an opening fence (bare or with the tag
\* json, jso, js, JSON or jsonc), a JSON value or other text, a closing
\* fence and a tail; and no text at all
IntentResponses ==
    LET leads == {<<>>, <<" ", "\n">>}
        openers == {<<>>, FENCE \o <<"\n">>, FENCE \o <<"j", "s", "o", "n", "\n">>,
                    FENCE \o <<"j", "s", "o", "n", " ", "\n">>,
                    FENCE \o <<"j", "s", "o", "\n">>,
                    FENCE \o <<"j", "s", "\n">>,
                    FENCE \o <<"J", "S", "O", "N", "\n">>,
                    FENCE \o <<"j", "s", "o", "n", "c", "\n">>}
        bodies == {<<w>> : w \in DOMAIN IntentLexemes}
                  \cup {<<>>, <<"n", "o", "t", " ", "a", " ", "j", "s", "o", "n">>,
                        <<"xinyi", "\n", "xinyi">>}
        closers == {<<>>, <<"\n">> \o FENCE, <<"\n">> \o FENCE \o <<"\n">>}
    IN  {l \o o \o b \o c : l \in leads, o \in openers, b \in bodies, c \in closers}

\* parseUserIntent, lines 215-225, from the call to the await of
\* generateContent: without a key or for a blank message the call resolves
\* to the fallback at once, else it waits for the model beside the calls
\* that wait already.  intent holds the call that resolved last and, in
\* calls, the messages of the calls that wait.
parseUserIntent(apiKey, userMessage) ==
    /\ (apiKey /\ trim(userMessage) # <<>>) => Len(intent.calls) < MaxInFlight
    /\ intent' =
         IF ~apiKey \/ trim(userMessage) = <<>>
         THEN [intent EXCEPT
                 !.step = "resolved", !.apiKey = apiKey,
                 !.userMessage = userMessage, !.response = <<>>,
                 !.result = parseUserIntentResult(apiKey, userMessage, <<>>)]
         ELSE [intent EXCEPT !.calls = Append(@, userMessage)]
    /\ UNCHANGED <<geminiVars, flex, sched, storageBySource, msg,
                   imageBatchQueue, timers, flushes, arrived, processedRetries,
                   handled, background, pending>>

\* parseUserIntent, lines 225-241: generateContent settles for the i-th of
\* the calls that wait, with the text `response` or, for <<"throw">>, with
\* an error, and the call resolves
generateContentSettles(i, response) ==
    /\ i \in 1..Len(intent.calls)
    /\ intent' = [step |-> "resolved", apiKey |-> TRUE,
                  userMessage |-> intent.calls[i], response |-> response,
                  result |-> parseUserIntentResult(TRUE, intent.calls[i], response),
                  calls |-> Without(intent.calls, i)]
    /\ UNCHANGED <<geminiVars, flex, sched, storageBySource, msg,
                   imageBatchQueue, timers, flushes, arrived, processedRetries,
                   handled, background, pending>>

(***************************************************************************)
(* lib/schedule.js, the store of the parsed documents, and the text branch *)
(* of handleMessage in lib/handler.js.  storageBySource is a Map of Maps:  *)
(* here every source has the sequence of its entries in insertion order,   *)
(* the empty sequence for a source without a Map.  The timestamp of an     *)
(* entry is Date.now() at its write, in the whole seconds of the clock; an *)
(* entry loaded from the file has a time before the start.                 *)
(***************************************************************************)
\* constants.js, line 17: 365 days, here in seconds
SCHEDULE_CLEANUP == 365 * 24 * 60 * 60

\* at most this many text messages are received
MaxMessages == 2

\* mutant of mapSet: the entry is appended whatever the keys
mapSet_Append(periodsMap, period, entry) == Append(periodsMap, entry)

\* Map.prototype.set: the value of an old key is replaced in place, a new
\* key goes last
mapSet(periodsMap, period, entry) ==
    IF \E i \in 1..Len(periodsMap) : periodsMap[i].period = period
    THEN [i \in 1..Len(periodsMap) |->
            IF periodsMap[i].period = period THEN entry ELSE periodsMap[i]]
    ELSE Append(periodsMap, entry)

\* lines 43-65: a source whose latest entry is older than SCHEDULE_CLEANUP
\* is deleted from the store
saveSchedulesToDB(storage, t) ==
    [s \in DOMAIN storage |->
        LET stamps == {storage[s][i].timestamp : i \in 1..Len(storage[s])}
            latestEntryTimestamp == CHOOSE x \in stamps : \A y \in stamps : y <= x
        IN  IF storage[s] # <<>> /\ t - latestEntryTimestamp > SCHEDULE_CLEANUP
            THEN <<>>
            ELSE storage[s]]

\* lines 242-258
cacheSchedule(storage, sourceId, parsed, t) ==
    IF parsed.periodStr = <<>> \/ sourceId = "" THEN storage
    ELSE saveSchedulesToDB(
            [storage EXCEPT ![sourceId] =
                mapSet(@, parsed.periodStr,
                       [period |-> parsed.periodStr, data |-> parsed, timestamp |-> t])],
            t)

\* mutant of handleText: a text that passes the gate and is not parsed is
\* answered with a complaint
handleText_ReportsFailure(storage, sourceId, text, isSchedule, parsed, t) ==
    IF isSchedule
    THEN [storage |-> IF parsed = NoSchedule THEN storage
                      ELSE cacheSchedule(storage, sourceId, parsed, t),
          sent |-> <<[kind |-> IF parsed = NoSchedule THEN "error" ELSE "schedule",
                      weekLabel |-> parsed.weekLabel,
                      groups |-> [i \in 1..Len(parsed.groups) |->
                                    parsed.groups[i].name],
                      prompt |-> <<>>]>>,
          promptText |-> <<>>]
    ELSE [storage |-> storage, sent |-> <<>>, promptText |-> text]

\* handleMessage, lines 390-427, for a text that is no command (no usage
\* query, no group selection, no schedule query) and holds no Strava link
\* and no question for a restaurant; isSchedule is isTrainingSchedule(text)
\* and parsed is parseSchedule(text).  The document is cached and the groups
\* are offered, or the text becomes the prompt.
handleText(storage, sourceId, text, isSchedule, parsed, t) ==
    IF isSchedule /\ parsed # NoSchedule /\ Len(parsed.groups) > 0
    THEN [storage |-> cacheSchedule(storage, sourceId, parsed, t),
          sent |-> <<[kind |-> "schedule", weekLabel |-> parsed.weekLabel,
                      groups |-> [i \in 1..Len(parsed.groups) |->
                                    parsed.groups[i].name],
                      prompt |-> <<>>]>>,
          promptText |-> <<>>]
    ELSE [storage |-> storage, sent |-> <<>>, promptText |-> text]

\* the texts received by handleMessage: a period, another period (that of
\* the loaded document, which has two groups) with one group, no period,
\* and no interval
HandlerTexts ==
    LET P == PIECES
    IN  {filled(P.week9 \o P.marker \o P.A, MIN_SCHEDULE_LENGTH),
         filled(P.week10 \o P.marker \o P.A, MIN_SCHEDULE_LENGTH),
         filled(P.marker \o P.A, MIN_SCHEDULE_LENGTH),
         filled(P.marker \o P.C, MIN_SCHEDULE_LENGTH)}

\* loadSchedulesFromDB, lines 16-38: every source starts without a Map or
\* with one entry of the file, written one second before the start
LoadedStores ==
    LET P == PIECES
        d == parseSchedule(P.week10 \o P.marker \o P.A \o P.B)
    IN  [Users -> {<<>>, <<[period |-> d.periodStr, data |-> d, timestamp |-> StartNow - 1]>>}]

(***************************************************************************)
(* lib/handler.js, handleMessage for the text messages of one-to-one and   *)
(* of group chats, with the commands and the reply of the provider.  The   *)
(* date of the server is sched.ref, process.env.ADMIN_USER_ID is           *)
(* env.ADMIN_USER_ID, NoUser when it is not set.                           *)
(***************************************************************************)
\* at most this many messages are handled
MaxEvents == 1

\* lib/schedule.js, lines 306-311: the letter of the group, "" for null
isGroupSelection(text) ==
    LET toUpperCase == [a |-> "A", b |-> "B", c |-> "C", d |-> "D", e |-> "E",
                        f |-> "F", g |-> "G", h |-> "H", i |-> "I", s |-> "S"]
    IN  CHOOSE r \in
          {IF m.index = 0 THEN ""
           ELSE IF text[m.ends[3]] \in DOMAIN toUpperCase
           THEN toUpperCase[text[m.ends[3]]]
           ELSE text[m.ends[3]] :
             m \in {regexMatch(text, PATTERNS.selection, 1..Len(text))}} : TRUE

\* lib/schedule.js, lines 338-347: the first document of the source whose
\* period holds the date, NoSchedule for null
getThisWeekSchedule(storage, sourceId, targetDate) ==
    IF sourceId \notin DOMAIN storage THEN NoSchedule
    ELSE LET periodsMap == storage[sourceId]
             hits == {i \in 1..Len(periodsMap) :
                        isDateInPeriod(periodsMap[i].period, targetDate)}
         IN  IF hits = {} THEN NoSchedule
             ELSE periodsMap[CHOOSE i \in hits : \A j \in hits : i <= j].data

\* lib/schedule.js, lines 316-331 (and getCachedSchedule, line 299): the
\* document of today, or else the one stored last
getLatestSchedule(storage, sourceId, today) ==
    IF sourceId \notin DOMAIN storage \/ storage[sourceId] = <<>> THEN NoSchedule
    ELSE LET periodsMap == storage[sourceId]
             \* sort((a, b) => b.timestamp - a.timestamp) is stable
             first == CHOOSE i \in 1..Len(periodsMap) :
                        \A j \in 1..Len(periodsMap) :
                            \/ periodsMap[j].timestamp < periodsMap[i].timestamp
                            \/ periodsMap[j].timestamp = periodsMap[i].timestamp /\ i <= j
         IN  IF getThisWeekSchedule(storage, sourceId, today) # NoSchedule
             THEN getThisWeekSchedule(storage, sourceId, today)
             ELSE periodsMap[first].data

\* replyOrPush, lines 173-190: the calls of the LINE client made for the
\* messages and whether the promise is rejected.  `reply` is how
\* replyMessage settles ("ok", "token" for an error that isReplyTokenError
\* recognises, "other" for another error), `push` how pushMessage does.
replyOrPush(event, messages, reply, push) ==
    LET forwarded == reply = "token" /\ event.userId # NoUser
    IN  [calls |-> <<[api |-> "replyMessage", to |-> event.replyToken,
                      messages |-> messages, result |-> reply]>>
                   \o (IF forwarded
                       THEN <<[api |-> "pushMessage", to |-> event.userId,
                               messages |-> messages, result |-> push]>>
                       ELSE <<>>),
         thrown |-> IF forwarded THEN push # "ok" ELSE reply # "ok"]

\* the trigger keywords of line 274
triggerKeywords ==
    {<<"U53F2", "U90FD", "U83EF">>, <<"s", "t", "u", "a", "r", "t">>,
     <<"S", "t", "u", "a", "r", "t">>, <<"s", "t", "u">>, <<"S", "t", "u">>}

\* the texts of the messages: the usage query, the selection of a group,
\* schedule queries (of this week, with a trigger, of two dates, of the next
\* week, of the last week in three wordings), a document
\* with two groups (also with a trigger), small talk (also with a trigger),
\* a document without a group and one without the line of the week
MessageTexts ==
    LET P == PIECES
    IN  {<<"U4F7F", "U7528", "U91CF">>,
         <<"U8AB2", "U8868", "A", "U7D44">>,
         <<"U8AB2", "U8868">>,
         <<"s", "t", "u", " ", "U8AB2", "U8868">>,
         <<"2", "/", "2", "4", "U8AB2", "U8868">>,
         <<"1", "/", "2", "U8AB2", "U8868">>,
         <<"U4E0B", "U9031", "U8AB2", "U8868">>,
         <<"U4E0A", "U9031", "U8AB2", "U8868">>,
         <<"U4E0A", "U6B21", "U8AB2", "U8868">>,
         <<"L", "a", "s", "t", "U8AB2", "U8868">>,
         filled(P.week9 \o P.marker \o P.A \o P.B, MIN_SCHEDULE_LENGTH),
         filled(P.week9 \o P.marker \o P.A \o P.B, MIN_SCHEDULE_LENGTH)
            \o <<"S", "t", "u", "a", "r", "t">>,
         <<" ", "h", "i", " ">>,
         <<"s", "t", "u", " ", "h", "i">>,
         filled(P.marker \o P.C, MIN_SCHEDULE_LENGTH),
         filled(P.marker \o P.A, MIN_SCHEDULE_LENGTH)}

\* handleMessage, lines 272-334 and 391-393: what is read from a text
\* before the state is looked at
ReadText ==
    [raw \in MessageTexts \cup HandlerTexts |->
      CHOOSE x \in UNION { UNION { UNION {
        {[text |-> text,
          isTriggered |-> \E keyword \in triggerKeywords : indexOf(text, keyword, 1) # 0,
          isSystemQuery |-> text \in {<<"U4F7F", "U7528", "U91CF">>,
                                      <<"U7528", "U91CF", "U67E5", "U8A62">>,
                                      <<"U67E5", "U7528", "U91CF">>},
          selectedGroup |-> isGroupSelection(text),
          isScheduleQuery |->
              /\ \E w \in {<<"U8AB2", "U8868">>, <<"U8A13", "U7DF4", "U8868">>} :
                    indexOf(text, w, 1) # 0
              /\ Len(text) < 15,
          \* the date asked for: a day of a month, or today moved by days
          target |-> IF dateMatch.index # 0
                     THEN [m |-> parseInt(SubSeq(text, dateMatch.index, sep - 1)),
                           d |-> parseInt(SubSeq(text, sep + 1,
                                     dateMatch.ends[Len(dateMatch.ends)] - 1)),
                           days |-> 0]
                     ELSE [m |-> 0, d |-> 0,
                           days |-> IF moved[1] THEN 7 ELSE IF moved[2] THEN -7 ELSE 0],
          isSpecificQuery |-> dateMatch.index # 0 \/ moved[1] \/ moved[2],
          isSchedule |-> isTrainingSchedule(text),
          parsed |-> parseSchedule(text)] :
           \* the place of the separator of the date
           sep \in {IF dateMatch.index = 0 THEN 0
                    ELSE dateMatch.ends[IF dateMatch.alt \in {1, 2} THEN 3 ELSE 2] - 1}} :
           dateMatch \in {regexMatch(text, PATTERNS.date, 1..Len(text))}} :
           \* the words for the next and for the last week
           moved \in
             {<<\/ \E w \in {<<"U4E0B">>, <<"U660E">>, <<"U6B21">>} :
                      indexOf(text, w, 1) # 0
                \/ indexOf(lower, <<"n", "e", "x", "t">>, 1) # 0,
                \/ \E w \in {<<"U4E0A">>, <<"U524D">>} : indexOf(text, w, 1) # 0
                \/ indexOf(lower, <<"l", "a", "s", "t">>, 1) # 0>> :
                lower \in
                  {[i \in 1..Len(text) |->
                      LET upper == <<"A", "B", "C", "D", "E", "F", "G", "H", "I", "J",
                                     "K", "L", "M", "N", "O", "P", "Q", "R", "S", "T",
                                     "U", "V", "W", "X", "Y", "Z">>
                          k == {j \in 1..26 : upper[j] = text[i]}
                      IN  IF k = {} THEN text[i]
                          ELSE <<"a", "b", "c", "d", "e", "f", "g", "h", "i", "j",
                                 "k", "l", "m", "n", "o", "p", "q", "r", "s", "t",
                                 "u", "v", "w", "x", "y", "z">>[CHOOSE j \in k : TRUE]]}}} :
           text \in {trim(raw)}} : TRUE]

\* textRoute with the selection of a group looked at before the guard of the
\* group chats
textRoute_SelectionFirst(w, event) ==
    CHOOSE route \in UNION {{
        IF ~r.isTriggered /\ event.type # "user" /\ r.selectedGroup = ""
        THEN still @@ [kind |-> "ignored"]
        ELSE IF r.isSystemQuery /\ env.ADMIN_USER_ID # NoUser
                /\ event.userId = env.ADMIN_USER_ID
        THEN \* getApiUsageStatus()
             CHOOSE x \in
               {[still EXCEPT !.tracker = tr,
                              !.sent = <<[kind |-> "usage", report |-> usageReport(tr)]>>]
                @@ [kind |-> "usage"] :
                  tr \in {syncDate(w.tracker, TaipeiDate(now))}} : TRUE
        ELSE IF r.selectedGroup # ""
        THEN \* line 299 and formatGroupResult, lib/schedule.js lines 198-222
             CHOOSE x \in
               {LET group == {i \in 1..Len(cached.groups) :
                                cached.groups[i].name = r.selectedGroup}
                IN  [still EXCEPT
                       !.sent = <<IF cached = NoSchedule
                                  THEN [kind |-> "nothing cached"]
                                  ELSE IF group = {} THEN [kind |-> "no such group"]
                                  ELSE [kind |-> "group", weekLabel |-> cached.weekLabel,
                                        group |-> cached.groups[CHOOSE i \in group :
                                                     \A j \in group : i <= j]]>>]
                    @@ [kind |-> "selection"] :
                  cached \in {getLatestSchedule(w.storage, event.sourceId,
                                                sched.ref)}} : TRUE
        ELSE IF r.isScheduleQuery
        THEN CHOOSE x \in UNION { UNION { UNION {
               {LET found == IF parsed # NoSchedule THEN parsed
                             ELSE IF rescued # NoSchedule
                                     /\ (isDateInPeriod(rescued.periodStr, targetDate)
                                         \/ ~r.isSpecificQuery)
                             THEN rescued
                             ELSE NoSchedule
                IN  [still EXCEPT
                       \* getUserHistory(userId)
                       !.cache = IF parsed = NoSchedule
                                    /\ getDeletes(w.cache, event.userId, now)
                                 THEN [w.cache EXCEPT ![event.userId] = NoEntry]
                                 ELSE w.cache,
                       !.storage = IF rescued # NoSchedule
                                   THEN cacheSchedule(w.storage, event.sourceId,
                                                      rescued, now)
                                   ELSE w.storage,
                       !.sent = <<IF found = NoSchedule
                                  THEN [kind |-> "nothing cached"]
                                  ELSE [kind |-> "choose",
                                        weekLabel |-> found.weekLabel,
                                        periodStr |-> found.periodStr,
                                        isTargetWeek |->
                                            isDateInPeriod(found.periodStr, targetDate),
                                        groups |-> [i \in 1..Len(found.groups) |->
                                                      found.groups[i].name]]>>]
                    @@ [kind |-> "query"] :
                  \* lines 347-366: without a document, the one pasted last
                  \* is looked for in the memory and cached
                  rescued \in
                    {IF parsed # NoSchedule THEN NoSchedule
                     ELSE LET rescues == {i \in 1..Len(read) : read[i] # NoSchedule}
                          IN  IF rescues = {} THEN NoSchedule
                              ELSE read[CHOOSE i \in rescues :
                                          \A j \in rescues : j <= i] :
                       read \in
                         {[i \in 1..Len(history) |->
                             IF isTrainingSchedule(history[i].content)
                             THEN parseSchedule(history[i].content)
                             ELSE NoSchedule] :
                            history \in {getUserHistoryValue(w.cache, w.heap,
                                                             event.userId, now)}}}} :
                  \* lines 339-344
                  parsed \in {IF thisWeek # NoSchedule \/ r.isSpecificQuery
                              THEN thisWeek
                              ELSE getLatestSchedule(w.storage, event.sourceId,
                                                     sched.ref)}} :
                  thisWeek \in {getThisWeekSchedule(w.storage, event.sourceId,
                                                    targetDate)}} :
                  \* lines 318-336
                  targetDate \in
                    {[year |-> day.year, month |-> day.month, date |-> day.date,
                      ms |-> sched.ref.ms] :
                       day \in {IF r.target.m # 0
                                THEN civilOf(DateOf(sched.ref.year, r.target.m - 1,
                                                    r.target.d))
                                ELSE civilOf(DateOf(sched.ref.year, sched.ref.month, sched.ref.date)
                                             + r.target.days)}}} : TRUE
        ELSE \* lines 391-427
             CHOOSE x \in
               {[still EXCEPT !.storage = pasted.storage, !.sent = pasted.sent,
                              !.promptText = pasted.promptText]
                @@ [kind |-> IF pasted.sent # <<>> THEN "schedule"
                             ELSE IF pasted.promptText = <<>> THEN "empty"
                             ELSE "chat"] :
                  pasted \in {handleText(w.storage, event.sourceId, r.text,
                                         r.isSchedule, r.parsed, now)}} : TRUE
        : still \in {[storage |-> w.storage, cache |-> w.cache,
                      tracker |-> w.tracker, sent |-> <<>>,
                      promptText |-> <<>>]}} :
          r \in {ReadText[event.text]}} : TRUE

\* textRoute with the report of the usage for every sender that has a userId
\* once an administrator is configured
textRoute_AnySender(w, event) ==
    CHOOSE route \in UNION {{
        IF ~r.isTriggered /\ event.type # "user"
        THEN still @@ [kind |-> "ignored"]
        ELSE IF r.isSystemQuery /\ env.ADMIN_USER_ID # NoUser
                /\ event.userId # NoUser
        THEN \* getApiUsageStatus()
             CHOOSE x \in
               {[still EXCEPT !.tracker = tr,
                              !.sent = <<[kind |-> "usage", report |-> usageReport(tr)]>>]
                @@ [kind |-> "usage"] :
                  tr \in {syncDate(w.tracker, TaipeiDate(now))}} : TRUE
        ELSE IF r.selectedGroup # ""
        THEN \* line 299 and formatGroupResult, lib/schedule.js lines 198-222
             CHOOSE x \in
               {LET group == {i \in 1..Len(cached.groups) :
                                cached.groups[i].name = r.selectedGroup}
                IN  [still EXCEPT
                       !.sent = <<IF cached = NoSchedule
                                  THEN [kind |-> "nothing cached"]
                                  ELSE IF group = {} THEN [kind |-> "no such group"]
                                  ELSE [kind |-> "group", weekLabel |-> cached.weekLabel,
                                        group |-> cached.groups[CHOOSE i \in group :
                                                     \A j \in group : i <= j]]>>]
                    @@ [kind |-> "selection"] :
                  cached \in {getLatestSchedule(w.storage, event.sourceId,
                                                sched.ref)}} : TRUE
        ELSE IF r.isScheduleQuery
        THEN CHOOSE x \in UNION { UNION { UNION {
               {LET found == IF parsed # NoSchedule THEN parsed
                             ELSE IF rescued # NoSchedule
                                     /\ (isDateInPeriod(rescued.periodStr, targetDate)
                                         \/ ~r.isSpecificQuery)
                             THEN rescued
                             ELSE NoSchedule
                IN  [still EXCEPT
                       \* getUserHistory(userId)
                       !.cache = IF parsed = NoSchedule
                                    /\ getDeletes(w.cache, event.userId, now)
                                 THEN [w.cache EXCEPT ![event.userId] = NoEntry]
                                 ELSE w.cache,
                       !.storage = IF rescued # NoSchedule
                                   THEN cacheSchedule(w.storage, event.sourceId,
                                                      rescued, now)
                                   ELSE w.storage,
                       !.sent = <<IF found = NoSchedule
                                  THEN [kind |-> "nothing cached"]
                                  ELSE [kind |-> "choose",
                                        weekLabel |-> found.weekLabel,
                                        periodStr |-> found.periodStr,
                                        isTargetWeek |->
                                            isDateInPeriod(found.periodStr, targetDate),
                                        groups |-> [i \in 1..Len(found.groups) |->
                                                      found.groups[i].name]]>>]
                    @@ [kind |-> "query"] :
                  \* lines 347-366: without a document, the one pasted last
                  \* is looked for in the memory and cached
                  rescued \in
                    {IF parsed # NoSchedule THEN NoSchedule
                     ELSE LET rescues == {i \in 1..Len(read) : read[i] # NoSchedule}
                          IN  IF rescues = {} THEN NoSchedule
                              ELSE read[CHOOSE i \in rescues :
                                          \A j \in rescues : j <= i] :
                       read \in
                         {[i \in 1..Len(history) |->
                             IF isTrainingSchedule(history[i].content)
                             THEN parseSchedule(history[i].content)
                             ELSE NoSchedule] :
                            history \in {getUserHistoryValue(w.cache, w.heap,
                                                             event.userId, now)}}}} :
                  \* lines 339-344
                  parsed \in {IF thisWeek # NoSchedule \/ r.isSpecificQuery
                              THEN thisWeek
                              ELSE getLatestSchedule(w.storage, event.sourceId,
                                                     sched.ref)}} :
                  thisWeek \in {getThisWeekSchedule(w.storage, event.sourceId,
                                                    targetDate)}} :
                  \* lines 318-336
                  targetDate \in
                    {[year |-> day.year, month |-> day.month, date |-> day.date,
                      ms |-> sched.ref.ms] :
                       day \in {IF r.target.m # 0
                                THEN civilOf(DateOf(sched.ref.year, r.target.m - 1,
                                                    r.target.d))
                                ELSE civilOf(DateOf(sched.ref.year, sched.ref.month, sched.ref.date)
                                             + r.target.days)}}} : TRUE
        ELSE \* lines 391-427
             CHOOSE x \in
               {[still EXCEPT !.storage = pasted.storage, !.sent = pasted.sent,
                              !.promptText = pasted.promptText]
                @@ [kind |-> IF pasted.sent # <<>> THEN "schedule"
                             ELSE IF pasted.promptText = <<>> THEN "empty"
                             ELSE "chat"] :
                  pasted \in {handleText(w.storage, event.sourceId, r.text,
                                         r.isSchedule, r.parsed, now)}} : TRUE
        : still \in {[storage |-> w.storage, cache |-> w.cache,
                      tracker |-> w.tracker, sent |-> <<>>,
                      promptText |-> <<>>]}} :
          r \in {ReadText[event.text]}} : TRUE

\* textRoute with the document stored last also for a query of a date or of
\* another week
textRoute_AlwaysLatest(w, event) ==
    CHOOSE route \in UNION {{
        IF ~r.isTriggered /\ event.type # "user"
        THEN still @@ [kind |-> "ignored"]
        ELSE IF r.isSystemQuery /\ env.ADMIN_USER_ID # NoUser
                /\ event.userId = env.ADMIN_USER_ID
        THEN \* getApiUsageStatus()
             CHOOSE x \in
               {[still EXCEPT !.tracker = tr,
                              !.sent = <<[kind |-> "usage", report |-> usageReport(tr)]>>]
                @@ [kind |-> "usage"] :
                  tr \in {syncDate(w.tracker, TaipeiDate(now))}} : TRUE
        ELSE IF r.selectedGroup # ""
        THEN \* line 299 and formatGroupResult, lib/schedule.js lines 198-222
             CHOOSE x \in
               {LET group == {i \in 1..Len(cached.groups) :
                                cached.groups[i].name = r.selectedGroup}
                IN  [still EXCEPT
                       !.sent = <<IF cached = NoSchedule
                                  THEN [kind |-> "nothing cached"]
                                  ELSE IF group = {} THEN [kind |-> "no such group"]
                                  ELSE [kind |-> "group", weekLabel |-> cached.weekLabel,
                                        group |-> cached.groups[CHOOSE i \in group :
                                                     \A j \in group : i <= j]]>>]
                    @@ [kind |-> "selection"] :
                  cached \in {getLatestSchedule(w.storage, event.sourceId,
                                                sched.ref)}} : TRUE
        ELSE IF r.isScheduleQuery
        THEN CHOOSE x \in UNION { UNION { UNION {
               {LET found == IF parsed # NoSchedule THEN parsed
                             ELSE IF rescued # NoSchedule
                                     /\ (isDateInPeriod(rescued.periodStr, targetDate)
                                         \/ ~r.isSpecificQuery)
                             THEN rescued
                             ELSE NoSchedule
                IN  [still EXCEPT
                       \* getUserHistory(userId)
                       !.cache = IF parsed = NoSchedule
                                    /\ getDeletes(w.cache, event.userId, now)
                                 THEN [w.cache EXCEPT ![event.userId] = NoEntry]
                                 ELSE w.cache,
                       !.storage = IF rescued # NoSchedule
                                   THEN cacheSchedule(w.storage, event.sourceId,
                                                      rescued, now)
                                   ELSE w.storage,
                       !.sent = <<IF found = NoSchedule
                                  THEN [kind |-> "nothing cached"]
                                  ELSE [kind |-> "choose",
                                        weekLabel |-> found.weekLabel,
                                        periodStr |-> found.periodStr,
                                        isTargetWeek |->
                                            isDateInPeriod(found.periodStr, targetDate),
                                        groups |-> [i \in 1..Len(found.groups) |->
                                                      found.groups[i].name]]>>]
                    @@ [kind |-> "query"] :
                  \* lines 347-366: without a document, the one pasted last
                  \* is looked for in the memory and cached
                  rescued \in
                    {IF parsed # NoSchedule THEN NoSchedule
                     ELSE LET rescues == {i \in 1..Len(read) : read[i] # NoSchedule}
                          IN  IF rescues = {} THEN NoSchedule
                              ELSE read[CHOOSE i \in rescues :
                                          \A j \in rescues : j <= i] :
                       read \in
                         {[i \in 1..Len(history) |->
                             IF isTrainingSchedule(history[i].content)
                             THEN parseSchedule(history[i].content)
                             ELSE NoSchedule] :
                            history \in {getUserHistoryValue(w.cache, w.heap,
                                                             event.userId, now)}}}} :
                  \* lines 339-344
                  parsed \in {IF thisWeek # NoSchedule
                              THEN thisWeek
                              ELSE getLatestSchedule(w.storage, event.sourceId,
                                                     sched.ref)}} :
                  thisWeek \in {getThisWeekSchedule(w.storage, event.sourceId,
                                                    targetDate)}} :
                  \* lines 318-336
                  targetDate \in
                    {[year |-> day.year, month |-> day.month, date |-> day.date,
                      ms |-> sched.ref.ms] :
                       day \in {IF r.target.m # 0
                                THEN civilOf(DateOf(sched.ref.year, r.target.m - 1,
                                                    r.target.d))
                                ELSE civilOf(DateOf(sched.ref.year, sched.ref.month, sched.ref.date)
                                             + r.target.days)}}} : TRUE
        ELSE \* lines 391-427
             CHOOSE x \in
               {[still EXCEPT !.storage = pasted.storage, !.sent = pasted.sent,
                              !.promptText = pasted.promptText]
                @@ [kind |-> IF pasted.sent # <<>> THEN "schedule"
                             ELSE IF pasted.promptText = <<>> THEN "empty"
                             ELSE "chat"] :
                  pasted \in {handleText(w.storage, event.sourceId, r.text,
                                         r.isSchedule, r.parsed, now)}} : TRUE
        : still \in {[storage |-> w.storage, cache |-> w.cache,
                      tracker |-> w.tracker, sent |-> <<>>,
                      promptText |-> <<>>]}} :
          r \in {ReadText[event.text]}} : TRUE

\* handleMessage, lines 272-427, for a text message without a Strava link
\* and without a question for a restaurant: which path the text takes, what
\* it makes of the cache of the documents, of the memory and of the usage
\* tracker, the message to send and the prompt for the provider
textRoute(w, event) ==
    CHOOSE route \in UNION {{
        IF ~r.isTriggered /\ event.type # "user"
        THEN still @@ [kind |-> "ignored"]
        ELSE IF r.isSystemQuery /\ env.ADMIN_USER_ID # NoUser
                /\ event.userId = env.ADMIN_USER_ID
        THEN \* getApiUsageStatus()
             CHOOSE x \in
               {[still EXCEPT !.tracker = tr,
                              !.sent = <<[kind |-> "usage", report |-> usageReport(tr)]>>]
                @@ [kind |-> "usage"] :
                  tr \in {syncDate(w.tracker, TaipeiDate(now))}} : TRUE
        ELSE IF r.selectedGroup # ""
        THEN \* line 299 and formatGroupResult, lib/schedule.js lines 198-222
             CHOOSE x \in
               {LET group == {i \in 1..Len(cached.groups) :
                                cached.groups[i].name = r.selectedGroup}
                IN  [still EXCEPT
                       !.sent = <<IF cached = NoSchedule
                                  THEN [kind |-> "nothing cached"]
                                  ELSE IF group = {} THEN [kind |-> "no such group"]
                                  ELSE [kind |-> "group", weekLabel |-> cached.weekLabel,
                                        group |-> cached.groups[CHOOSE i \in group :
                                                     \A j \in group : i <= j]]>>]
                    @@ [kind |-> "selection"] :
                  cached \in {getLatestSchedule(w.storage, event.sourceId,
                                                sched.ref)}} : TRUE
        ELSE IF r.isScheduleQuery
        THEN CHOOSE x \in UNION { UNION { UNION {
               {LET found == IF parsed # NoSchedule THEN parsed
                             ELSE IF rescued # NoSchedule
                                     /\ (isDateInPeriod(rescued.periodStr, targetDate)
                                         \/ ~r.isSpecificQuery)
                             THEN rescued
                             ELSE NoSchedule
                IN  [still EXCEPT
                       \* getUserHistory(userId)
                       !.cache = IF parsed = NoSchedule
                                    /\ getDeletes(w.cache, event.userId, now)
                                 THEN [w.cache EXCEPT ![event.userId] = NoEntry]
                                 ELSE w.cache,
                       !.storage = IF rescued # NoSchedule
                                   THEN cacheSchedule(w.storage, event.sourceId,
                                                      rescued, now)
                                   ELSE w.storage,
                       !.sent = <<IF found = NoSchedule
                                  THEN [kind |-> "nothing cached"]
                                  ELSE [kind |-> "choose",
                                        weekLabel |-> found.weekLabel,
                                        periodStr |-> found.periodStr,
                                        isTargetWeek |->
                                            isDateInPeriod(found.periodStr, targetDate),
                                        groups |-> [i \in 1..Len(found.groups) |->
                                                      found.groups[i].name]]>>]
                    @@ [kind |-> "query"] :
                  \* lines 347-366: without a document, the one pasted last
                  \* is looked for in the memory and cached
                  rescued \in
                    {IF parsed # NoSchedule THEN NoSchedule
                     ELSE LET rescues == {i \in 1..Len(read) : read[i] # NoSchedule}
                          IN  IF rescues = {} THEN NoSchedule
                              ELSE read[CHOOSE i \in rescues :
                                          \A j \in rescues : j <= i] :
                       read \in
                         {[i \in 1..Len(history) |->
                             IF isTrainingSchedule(history[i].content)
                             THEN parseSchedule(history[i].content)
                             ELSE NoSchedule] :
                            history \in {getUserHistoryValue(w.cache, w.heap,
                                                             event.userId, now)}}}} :
                  \* lines 339-344
                  parsed \in {IF thisWeek # NoSchedule \/ r.isSpecificQuery
                              THEN thisWeek
                              ELSE getLatestSchedule(w.storage, event.sourceId,
                                                     sched.ref)}} :
                  thisWeek \in {getThisWeekSchedule(w.storage, event.sourceId,
                                                    targetDate)}} :
                  \* lines 318-336
                  targetDate \in
                    {[year |-> day.year, month |-> day.month, date |-> day.date,
                      ms |-> sched.ref.ms] :
                       day \in {IF r.target.m # 0
                                THEN civilOf(DateOf(sched.ref.year, r.target.m - 1,
                                                    r.target.d))
                                ELSE civilOf(DateOf(sched.ref.year, sched.ref.month, sched.ref.date)
                                             + r.target.days)}}} : TRUE
        ELSE \* lines 391-427
             CHOOSE x \in
               {[still EXCEPT !.storage = pasted.storage, !.sent = pasted.sent,
                              !.promptText = pasted.promptText]
                @@ [kind |-> IF pasted.sent # <<>> THEN "schedule"
                             ELSE IF pasted.promptText = <<>> THEN "empty"
                             ELSE "chat"] :
                  pasted \in {handleText(w.storage, event.sourceId, r.text,
                                         r.isSchedule, r.parsed, now)}} : TRUE
        : still \in {[storage |-> w.storage, cache |-> w.cache,
                      tracker |-> w.tracker, sent |-> <<>>,
                      promptText |-> <<>>]}} :
          r \in {ReadText[event.text]}} : TRUE

(***************************************************************************)
(* The handlers running beside each other.  A step of the model is what    *)
(* the event loop runs from the settling of an awaited call to the next    *)
(* await: the handler of an event (background) and the callback of a timer *)
(* (flushes) stop at the waits for the LINE client and for the provider,   *)
(* and other events are handled in between.  An await of a promise that is *)
(* already settled (extractRealRestaurants for a text that asks for no     *)
(* restaurant, line 421) ends no step.                                     *)
(***************************************************************************)
\* at most this many events are handed to handleEvent
MaxHandlers == 2

\* bookkeeping: h is the handleMessage call that moved last past getProfile,
\* `thrown` whether it threw; `entered` calls got past getProfile in this step
Seen(w, h, thrown, entered) ==
    [w EXCEPT !.msg = h @@ [thrown |-> thrown, handled |-> w.msg.handled + entered]]

\* handleMessage, lines 472-483, and replyOrPush, lines 173-179: the handler
\* that awaited the generateChatReply call of slot s gives its answer to
\* replyMessage
handlersAfter(bg, s, aiResponse) ==
    [i \in 1..Len(bg) |->
        IF bg[i].step = "generateChatReply" /\ bg[i].slot = s
        THEN [bg[i] EXCEPT !.step = "replyMessage", !.slot = 0,
                           !.sent = messagesToSend(aiResponse)]
        ELSE bg[i]]

\* the callback of setTimeout, lines 118-123: the answer of the call of
\* slot s is pushed unless it is the code of an image to ignore
flushesAfter(fl, s, replyMessage) ==
    [i \in 1..Len(fl) |->
        IF fl[i].step = "generateChatReply" /\ fl[i].slot = s
        THEN [fl[i] EXCEPT !.step = IF replyMessage # <<>>
                                       /\ trim(replyMessage) # <<"[IGNORE]">>
                                    THEN "pushMessage" ELSE "done",
                           !.slot = 0]
        ELSE fl[i]]

\* the caller that awaited the generateChatReply call of slot s goes on, in
\* the same turn, when the call has returned in the world w
Resume(w, s) ==
    IF w.req[s].pc # "idle" THEN w
    ELSE CHOOSE after \in
           {[w EXCEPT
               !.background = bg,
               !.flushes = flushesAfter(@, s, w.obs.ret),
               !.msg = IF \A i \in 1..Len(bg) : bg[i] = w.background[i] THEN @
                       ELSE bg[CHOOSE i \in 1..Len(bg) : bg[i] # w.background[i]]
                            @@ [thrown |-> FALSE, handled |-> @.handled]] :
              bg \in {handlersAfter(w.background, s, w.obs.ret)}} : TRUE

\* handleMessage, lines 458-483, for the call w.background[i]:
\* generateChatReply is called with the prompt, without an image and with
\* the name of the sender as context.  The handler waits for it; when it
\* returns at once, lines 472-483 hand its answer to replyMessage.
awaitChatReply(w, i) ==
    CHOOSE after \in
      {IF called.full THEN called
       ELSE IF called.req[FreeSlot(w.req)].pc = "idle"
       THEN Seen([called EXCEPT
                    !.background[i].step = "replyMessage",
                    !.background[i].sent = messagesToSend(called.obs.ret)],
                 [w.background[i] EXCEPT
                    !.step = "replyMessage",
                    !.sent = messagesToSend(called.obs.ret)],
                 FALSE, 0)
       ELSE Seen([called EXCEPT
                    !.background[i].step = "generateChatReply",
                    !.background[i].slot = FreeSlot(w.req)],
                 [w.background[i] EXCEPT
                    !.step = "generateChatReply", !.slot = FreeSlot(w.req)],
                 FALSE, 0) :
         called \in {generateChatReply(w, w.background[i].promptText, NoImage,
                                       w.background[i].event.userId, <<"name">>)}} :
      TRUE

\* handleMessage, lines 458-470, for the handler background[i]:
\* showLoadingAnimation has settled, its failure being ignored
chatReply(i) ==
    /\ i \in 1..Len(background)
    /\ background[i].step = "showLoadingAnimation"
    /\ \E w \in {awaitChatReply(World, i)} : Step(w)

\* handleMessage without the return after the reply to the selection of a
\* group: the text goes on to the provider
handleMessage_NoReturn(w, i) ==
    CHOOSE after \in UNION {{
        IF h.event.message = "image"
        THEN Seen([w EXCEPT !.background[i].step = "downloadAndCompress",
                            !.background[i].kind = "image"],
                  [h EXCEPT !.step = "downloadAndCompress", !.kind = "image"],
                  FALSE, 1)
        ELSE IF out.kind \in {"chat", "selection"}
        THEN CHOOSE x \in
               {IF h.event.userId = NoUser THEN awaitChatReply(routed, i)
                ELSE routed :
                  routed \in
                    {Seen([w EXCEPT
                             !.storage = out.storage,
                             !.cache = out.cache,
                             !.heap = Collect(w.heap, out.cache, w.req),
                             !.tracker = out.tracker,
                             !.background[i].step = "showLoadingAnimation",
                             !.background[i].kind = out.kind,
                             !.background[i].sent = out.sent,
                             !.background[i].promptText =
                                 IF out.kind = "selection" THEN trim(h.event.text)
                                 ELSE out.promptText],
                          [h EXCEPT !.step = "showLoadingAnimation",
                                    !.kind = out.kind,
                                    !.sent = out.sent,
                                    !.promptText =
                                        IF out.kind = "selection"
                                        THEN trim(h.event.text)
                                        ELSE out.promptText],
                          FALSE, 1)}} : TRUE
        ELSE IF out.sent = <<>>
        THEN Seen([w EXCEPT !.storage = out.storage,
                            !.cache = out.cache,
                            !.heap = Collect(w.heap, out.cache, w.req),
                            !.tracker = out.tracker,
                            !.background = Without(@, i)],
                  [h EXCEPT !.step = "done", !.kind = out.kind], FALSE, 1)
        ELSE Seen([w EXCEPT !.storage = out.storage,
                            !.cache = out.cache,
                            !.heap = Collect(w.heap, out.cache, w.req),
                            !.tracker = out.tracker,
                            !.background[i].step = "replyMessage",
                            !.background[i].kind = out.kind,
                            !.background[i].sent = out.sent],
                  [h EXCEPT !.step = "replyMessage", !.kind = out.kind,
                            !.sent = out.sent],
                  FALSE, 1) :
          out \in {IF h.event.message = "image" THEN <<>>
                   ELSE textRoute(w, h.event)}} :
          h \in {w.background[i]}} : TRUE

\* handleMessage, lines 212-483, for the call w.background[i], from the
\* settling of getProfile (or from the call, for an event without a userId)
\* to its next await.  An image waits for downloadAndCompress.  A text takes
\* the route of its command or document up to replyMessage, is ignored (the
\* call returns null), or becomes the prompt: with a userId up to
\* showLoadingAnimation, without one up to generateChatReply.
handleMessage(w, i) ==
    CHOOSE after \in UNION {{
        IF h.event.message = "image"
        THEN Seen([w EXCEPT !.background[i].step = "downloadAndCompress",
                            !.background[i].kind = "image"],
                  [h EXCEPT !.step = "downloadAndCompress", !.kind = "image"],
                  FALSE, 1)
        ELSE IF out.kind = "chat"
        THEN CHOOSE x \in
               {IF h.event.userId = NoUser THEN awaitChatReply(routed, i)
                ELSE routed :
                  routed \in
                    {Seen([w EXCEPT
                             !.storage = out.storage,
                             !.cache = out.cache,
                             !.heap = Collect(w.heap, out.cache, w.req),
                             !.tracker = out.tracker,
                             !.background[i].step = "showLoadingAnimation",
                             !.background[i].kind = out.kind,
                             !.background[i].promptText = out.promptText],
                          [h EXCEPT !.step = "showLoadingAnimation",
                                    !.kind = out.kind,
                                    !.promptText = out.promptText],
                          FALSE, 1)}} : TRUE
        ELSE IF out.sent = <<>>
        THEN Seen([w EXCEPT !.storage = out.storage,
                            !.cache = out.cache,
                            !.heap = Collect(w.heap, out.cache, w.req),
                            !.tracker = out.tracker,
                            !.background = Without(@, i)],
                  [h EXCEPT !.step = "done", !.kind = out.kind], FALSE, 1)
        ELSE Seen([w EXCEPT !.storage = out.storage,
                            !.cache = out.cache,
                            !.heap = Collect(w.heap, out.cache, w.req),
                            !.tracker = out.tracker,
                            !.background[i].step = "replyMessage",
                            !.background[i].kind = out.kind,
                            !.background[i].sent = out.sent],
                  [h EXCEPT !.step = "replyMessage", !.kind = out.kind,
                            !.sent = out.sent],
                  FALSE, 1) :
          out \in {IF h.event.message = "image" THEN <<>>
                   ELSE textRoute(w, h.event)}} :
          h \in {w.background[i]}} : TRUE

\* index.js lines 135-141, req.body.events.forEach: handleEvent, lines
\* 160-180, is called for each event in turn and runs handleMessage up to
\* its first await.  That is getProfile for an event with a userId; the call
\* for an event without one runs on as far as handleMessage(w, i) says,
\* what it does past line 421 after the calls for the later events have
\* started, which read and write nothing of it.
RECURSIVE forEach(_, _, _)
forEach(w, retryKey, events) ==
    IF events = <<>> \/ w.full THEN w
    ELSE CHOOSE after \in UNION {
           {forEach(next, retryKey, Tail(events)) :
              next \in {IF events[1].userId # NoUser THEN called
                        ELSE handleMessage(called, Len(called.background))}} :
              called \in {[w EXCEPT
                             !.background =
                                 Append(@, Handler(retryKey, events[1], "getProfile",
                                                   <<>>, <<>>))]}} : TRUE

\* the last handler of the route /webhook, index.js lines 113-143, for a
\* request with these events: a request without events, or with a retry key
\* that is kept, is answered and nothing is handled; else the key is kept
\* and every event is handed to handleEvent
webhook(retryKey, events) ==
    /\ handled[retryKey].requests < MaxDeliveries
    /\ Cardinality({x \in (RetryKeys \cup {NoKey}) \X (1..MaxDeliveries) :
                       x[2] <= handled[x[1]].requests}) < MaxHandlers
    /\ Len(background) + Len(events) <= MaxHandlers
    /\ IF events = <<>> \/ (retryKey # NoKey /\ retryKey \in processedRetries)
       THEN UNCHANGED vars
       ELSE /\ processedRetries' = IF retryKey # NoKey
                                   THEN processedRetries \cup {retryKey}
                                   ELSE processedRetries
            /\ handled' = [handled EXCEPT ![retryKey].requests = @ + 1]
            /\ \E w \in {forEach(World, retryKey, events)} :
                  ~w.full /\ Becomes(w)
            /\ UNCHANGED <<env, now, ticks, flex, sched, imageBatchQueue, timers,
                           arrived, intent, pending>>

\* setInterval(() => processedRetries.clear(), 10 * 60 * 1000), line 68
clearRetries ==
    /\ processedRetries' = {}
    /\ UNCHANGED <<geminiVars, flex, sched, storageBySource, msg, intent, pending,
                   imageBatchQueue, timers, flushes, arrived, handled, background>>

\* handleEvent, index.js lines 160-180, for the handler background[i], when
\* the getProfile or the downloadAndCompress it awaits has settled
\* (`downloaded`: with the image): handleMessage goes on to its next await;
\* a downloaded image is given to enqueueImage, lib/handler.js line 440, and
\* the call returns; without the image an apology is sent.  Whatever the
\* handler throws later is caught and logged at lines 172-177 and null is
\* returned: the promise is fulfilled, the catch of line 136, which would
\* delete the key, does not run, and processedRetries stays as it is.
handleEvent(i, downloaded) ==
    /\ i \in 1..Len(background)
    /\ background[i].step \in {"getProfile", "downloadAndCompress"}
    /\ \E h \in {background[i]} :
         IF h.step = "getProfile"
         THEN \E w \in {handleMessage(World, i)} : Step(w)
         ELSE IF downloaded
         THEN \E textWithImage \in {trim(h.event.text)} :
              \E isTriggered \in
                   {/\ textWithImage # <<>>
                    /\ \E keyword \in triggerKeywords :
                          indexOf(textWithImage, keyword, 1) # 0} :
                /\ enqueueImage(h.event.userId, h.event.sourceId, textWithImage,
                                buildImageSystemContext(textWithImage, isTriggered,
                                                        h.event.type # "user"))
                /\ background' = Without(background, i)
                /\ msg' = [h EXCEPT !.step = "done"]
                          @@ [thrown |-> FALSE, handled |-> msg.handled]
                /\ UNCHANGED <<geminiVars, flex, sched, storageBySource, flushes,
                               processedRetries, handled, intent, pending>>
         ELSE /\ background' = [background EXCEPT
                                  ![i].step = "replyMessage",
                                  ![i].sent = <<[kind |-> "apology"]>>]
              /\ msg' = [h EXCEPT !.step = "replyMessage",
                                  !.sent = <<[kind |-> "apology"]>>]
                        @@ [thrown |-> FALSE, handled |-> msg.handled]
              /\ UNCHANGED <<geminiVars, flex, sched, storageBySource, flushes,
                             imageBatchQueue, timers, arrived, processedRetries,
                             handled, intent, pending>>

\* replyOrPush, lines 173-190, from the settling of replyMessage (`reply`)
\* or of pushMessage (`push`) for the handler background[i]: the push is
\* made after an error of the reply token, or the handler returns or
\* throws; what it throws is caught and logged by handleEvent, index.js
\* lines 172-177, and is counted in handled
replyOrPushSettles(i, reply, push) ==
    /\ i \in 1..Len(background)
    /\ background[i].step \in {"replyMessage", "pushMessage"}
    /\ \E h \in {background[i]} :
       \E sending \in {replyOrPush(h.event, h.sent,
                                   IF h.step = "replyMessage" THEN reply ELSE "token",
                                   push)} :
         IF h.step = "replyMessage" /\ Len(sending.calls) = 2
         THEN /\ background' = [background EXCEPT
                                  ![i].step = "pushMessage",
                                  ![i].calls = SubSeq(sending.calls, 1, 1)]
              /\ handled' = handled
              /\ msg' = [h EXCEPT !.step = "pushMessage",
                                  !.calls = SubSeq(sending.calls, 1, 1)]
                        @@ [thrown |-> FALSE, handled |-> msg.handled]
         ELSE /\ background' = Without(background, i)
              /\ handled' = [handled EXCEPT
                               ![h.retryKey].failed = IF sending.thrown THEN @ + 1
                                                      ELSE @]
              /\ msg' = [h EXCEPT !.step = "done", !.calls = sending.calls]
                        @@ [thrown |-> sending.thrown, handled |-> msg.handled]
    /\ UNCHANGED <<geminiVars, flex, sched, storageBySource, imageBatchQueue,
                   timers, flushes, arrived, processedRetries, intent, pending>>

\* the callback of setTimeout from one await to the next, lines 105-127:
\* when showLoadingAnimation has settled, its failure being ignored,
\* generateChatReply is called with the prompt, the images, the batch key as
\* userId and the context of the batch; when pushMessage has settled, its
\* failure is logged
flushContinues(i, delivered) ==
    /\ i \in 1..Len(flushes)
    /\ \/ /\ flushes[i].step = "showLoadingAnimation"
          /\ \E called \in {generateChatReply(World, flushes[i].combinedPrompt,
                                              flushes[i].images, flushes[i].batchKey,
                                              flushes[i].combinedContext)} :
               /\ ~called.full
               /\ \E marked \in {[flushes EXCEPT ![i].step = "generateChatReply",
                                                 ![i].slot = FreeSlot(req)]} :
                  \E w \in {[called EXCEPT
                               !.flushes =
                                   IF called.req[FreeSlot(req)].pc = "idle"
                                   THEN flushesAfter(marked, FreeSlot(req),
                                                     called.obs.ret)
                                   ELSE marked]} : Step(w)
       \/ /\ flushes[i].step = "pushMessage"
          /\ flushes' = [flushes EXCEPT
                            ![i].step = "done",
                            ![i].calls = <<[api |-> "pushMessage",
                                            to |-> flushes[i].targetId,
                                            result |-> IF delivered THEN "ok"
                                                       ELSE "failed"]>>]
          /\ UNCHANGED <<geminiVars, flex, sched, storageBySource, msg, intent,
                         pending, imageBatchQueue, timers, arrived,
                         processedRetries, handled, background>>

(***************************************************************************)
(* Specifications                                                          *)
(***************************************************************************)
\* a call by one of `users`, while fewer than `bound` calls were started
Call(users, bound) ==
    /\ started < bound
    /\ \E userMessage \in Messages(started + 1) :
       \E x \in Extras : \E userId \in users :
       \E w \in {generateChatReply(World, userMessage, x[1], userId, x[2])} :
           Step(w)

\* generateContent settles for a call that awaits it, and the caller of a
\* call that returns goes on
Primary ==
    \E s \in Slots : \E o \in GeminiOutcomes :
        /\ req[s].pc = "gemini"
        /\ \E settled \in {GeminiSettles(World, s, o)} :
           \E w \in {Resume(settled, s)} : Step(w)

\* generateContent settles for the images of a batch: it rejects, or answers
\* with a text or with the code of an image to ignore
PrimaryOfImages ==
    \E s \in Slots :
    \E o \in {Outcome("throw", <<>>), Outcome("text", <<" ", "g", " ">>),
             Outcome("text", <<" ", "[IGNORE]", " ">>)} :
        /\ req[s].pc = "gemini"
        /\ \E settled \in {GeminiSettles(World, s, o)} :
           \E w \in {Resume(settled, s)} : Step(w)

\* the fetch of callOpenRouter settles for a call that awaits it, with an
\* outcome of the model asked, and the caller of a call that returns goes on
Secondary ==
    \E s \in Slots : \E o \in OpenRouterOutcomes("A") \cup OpenRouterOutcomes("B") :
        /\ req[s].pc = "openrouter"
        /\ o \in OpenRouterOutcomes(req[s].models[req[s].idx])
        /\ \E settled \in {OpenRouterSettles(World, s, o)} :
           \E w \in {Resume(settled, s)} : Step(w)

GetHistory == \E u \in Users \cup {NoUser} : getUserHistory(u)

Clock == \E d \in Deltas : Tick(d)

Next ==
    \/ Call(Users \cup {NoUser}, MaxReq)
    \/ Primary
    \/ Secondary
    \/ GetHistory
    \/ getApiUsageStatus
    \/ Clock

Spec == Init /\ [][Next]_vars

\* anonymous calls are started and settle in any order while time passes,
\* with the Gemini key alone
TierInit == Init /\ env.GEMINI_API_KEY /\ ~env.OPENROUTER_API_KEY

TierSpec ==
    TierInit
    /\ [][\/ requestStarts
          \/ \E selectedModel \in DOMAIN NoPending, outcome \in GeminiOutcomes :
                requestSettles(selectedModel, outcome)
          \/ Clock]_vars

\* no call is suspended
NoneInFlight == \A s \in Slots : req[s].pc = "idle"

\* the exchanges of one identity, one after the other
OneUserNext ==
    \/ NoneInFlight /\ Call({"u1"}, MaxExchanges)
    \/ Primary
    \/ Secondary
    \/ GetHistory
    \/ getApiUsageStatus
    \/ Clock

OneUserSpec == Init /\ [][OneUserNext]_vars

\* time passes; whether a provider ever answers is up to the provider, and
\* the code arms no timer of its own for a provider call
LiveSpec == Init /\ [][Next]_vars /\ WF_vars(Clock)

\* the turns two earlier exchanges of u1 left behind
EarlierTurns ==
    pushedTurns(<<"p1">>, <<"g">>) \o pushedTurns(<<"p2">>, <<"g">>)

\* the process after two exchanges of u1, the entry still fresh
RaceInit ==
    /\ env \in {e \in Envs : e.GEMINI_API_KEY \/ e.OPENROUTER_API_KEY}
    /\ now = StartNow
    /\ ticks = 0
    /\ chatHistoryCache =
          [u \in Users |-> IF u = "u1"
                           THEN [history |-> 1, lastUpdated |-> StartNow]
                           ELSE NoEntry]
    /\ heap = [r \in Refs |-> IF r = 1 THEN EarlierTurns ELSE <<>>]
    /\ apiUsageTracker =
          (IF env.GEMINI_API_KEY
           THEN [date |-> TaipeiDate(StartNow), flashCount |-> 2]
           ELSE [date |-> NoDate, flashCount |-> 0])
    /\ req = [s \in Slots |-> Idle]
    /\ started = 0
    /\ log = [u \in Users |-> IF u = "u1" THEN EarlierTurns ELSE <<>>]
    /\ obs = NoObs
    /\ flex = NoFlex
    /\ sched = NoSched
    /\ HandlerIdle

\* the exchanges of one identity, up to MaxInFlight of them in flight
RaceNext ==
    \/ Call({"u1"}, MaxRace)
    \/ Primary
    \/ Secondary
    \/ GetHistory
    \/ getApiUsageStatus
    \/ Clock

RaceSpec == RaceInit /\ [][RaceNext]_vars

\* handleMessage renders a reply of the model
FlexInit ==
    /\ GeminiInit
    /\ flex \in {[aiResponse |-> r, sent |-> <<>>] : r \in FlexReplies}
    /\ sched = NoSched
    /\ HandlerIdle

FlexSpec == FlexInit /\ [][handleReply]_vars

\* a text is gated and parsed, or a pace is converted
ScheduleInit ==
    /\ GeminiInit
    /\ env = [GEMINI_API_KEY |-> TRUE, OPENROUTER_API_KEY |-> TRUE,
              OPENROUTER_MODEL |-> "A", OPENROUTER_MODEL_FALLBACKS |-> <<"A", "B">>]
    /\ apiUsageTracker.date = NoDate
    /\ flex = NoFlex
    /\ sched \in {[NoSched EXCEPT !.text = t, !.step = "text"] : t \in ScheduleTexts}
                 \cup {[NoSched EXCEPT !.pace = p, !.step = "pace"] : p \in SchedulePaces}
    /\ HandlerIdle

ScheduleNext == readGate \/ readSchedule \/ readPace

ScheduleSpec == ScheduleInit /\ [][ScheduleNext]_vars

\* a period is checked against a reference date
PeriodInit ==
    /\ GeminiInit
    /\ env = [GEMINI_API_KEY |-> TRUE, OPENROUTER_API_KEY |-> TRUE,
              OPENROUTER_MODEL |-> "A", OPENROUTER_MODEL_FALLBACKS |-> <<"A", "B">>]
    /\ apiUsageTracker.date = NoDate
    /\ flex = NoFlex
    /\ sched \in {[NoSched EXCEPT !.period = p, !.ref = r, !.step = "period"] :
                    p \in SchedulePeriods, r \in ScheduleRefs}
    /\ HandlerIdle

PeriodSpec == PeriodInit /\ [][readPeriod]_vars

\* the state in which parseUserIntent is called: nothing is cached, queued
\* or in flight
WebInit ==
    /\ GeminiInit
    /\ env = [GEMINI_API_KEY |-> TRUE, OPENROUTER_API_KEY |-> TRUE,
              OPENROUTER_MODEL |-> "A", OPENROUTER_MODEL_FALLBACKS |-> <<"A", "B">>]
    /\ apiUsageTracker.date = NoDate
    /\ flex = NoFlex
    /\ sched = NoSched
    /\ HandlerIdle

\* images arrive, without a text in the chat of the user alone or with a
\* text in the group, and are flushed in batches; only the key of Gemini is
\* set
ImageInit ==
    /\ GeminiInit
    /\ env = [GEMINI_API_KEY |-> TRUE, OPENROUTER_API_KEY |-> FALSE,
              OPENROUTER_MODEL |-> "A", OPENROUTER_MODEL_FALLBACKS |-> <<"A", "B">>]
    /\ apiUsageTracker.date = NoDate
    /\ flex = NoFlex
    /\ sched = NoSched
    /\ HandlerIdle

ImageNext ==
    \/ \E u \in Users \cup {NoUser}, sourceId \in {"u", GROUP} :
       \E textWithImage \in {IF sourceId = "u" THEN <<>> ELSE <<"h", "i">>} :
          /\ enqueueImage(u, IF sourceId = "u" THEN u ELSE sourceId, textWithImage,
                          buildImageSystemContext(textWithImage, FALSE,
                                                  sourceId = GROUP))
          /\ UNCHANGED <<geminiVars, flex, sched, storageBySource, msg, intent,
                         pending, flushes, processedRetries, handled, background>>
    \/ \E t \in [id : 1..MaxImages, batchKey : Users] : timerFires(t)
    \/ \E i \in 1..MaxImages, delivered \in BOOLEAN : flushContinues(i, delivered)
    \/ PrimaryOfImages

ImageSpec == ImageInit /\ [][ImageNext]_vars

\* the same with the event loop running: a timer that stays armed fires
ImageLiveSpec ==
    /\ ImageSpec
    /\ \A u \in Users :
          WF_vars(\E id \in 1..MaxImages : timerFires([id |-> id, batchKey |-> u]))

\* parseUserIntent is called with or without a key, for a blank message,
\* for "x" and for "y", also while earlier calls wait, and the model
\* answers the calls in any order: with a text or with a failure, the calls
\* for "y" with a failure or with one of two texts
IntentNext ==
    \/ \E apiKey \in BOOLEAN, userMessage \in {<<" ">>, <<"x">>, <<"y">>} :
          parseUserIntent(apiKey, userMessage)
    \/ \E i \in 1..MaxInFlight, response \in IntentResponses \cup {<<"throw">>} :
          /\ i \in 1..Len(intent.calls)
          /\ intent.calls[i] = <<"y">> =>
                response \in {<<"throw">>, <<"xinyi">>, <<"italian">>}
          /\ generateContentSettles(i, response)

IntentSpec == WebInit /\ [][IntentNext]_vars

\* the events of the requests: a document and small talk in a one-to-one
\* chat, an image, and in a group a document with a trigger keyword and a
\* text without one, both without a userId
WebhookEvents ==
    LET P == PIECES
        Event(type, u, message, text, replyToken) ==
            [type |-> type, userId |-> u,
             sourceId |-> IF type = "user" THEN u ELSE GROUP,
             message |-> message, text |-> text, replyToken |-> replyToken]
    IN  {Event("user", "u1", "text",
               filled(P.week9 \o P.marker \o P.A \o P.B, MIN_SCHEDULE_LENGTH), 1),
         Event("user", "u1", "text", <<" ", "h", "i", " ">>, 2),
         Event("user", "u1", "image", <<>>, 3),
         Event("group", NoUser, "text",
               filled(P.week9 \o P.marker \o P.A \o P.B, MIN_SCHEDULE_LENGTH)
                   \o <<"S", "t", "u", "a", "r", "t">>, 4),
         Event("group", NoUser, "text", <<" ", "h", "i", " ">>, 5)}

\* requests are delivered, also again, while their events are handled; no
\* document is cached, nothing is remembered and only the key of Gemini is
\* set
WebhookInit ==
    /\ env = [GEMINI_API_KEY |-> TRUE, OPENROUTER_API_KEY |-> FALSE,
              OPENROUTER_MODEL |-> "A", OPENROUTER_MODEL_FALLBACKS |-> <<"A", "B">>,
              ADMIN_USER_ID |-> NoUser]
    /\ now = StartNow
    /\ ticks = 0
    /\ chatHistoryCache = [u \in Users |-> NoEntry]
    /\ heap = [r \in Refs |-> <<>>]
    /\ apiUsageTracker = [date |-> NoDate, flashCount |-> 0]
    /\ req = [s \in Slots |-> Idle]
    /\ started = 0
    /\ log = [u \in Users |-> <<>>]
    /\ obs = NoObs
    /\ flex = NoFlex
    /\ sched = [NoSched EXCEPT !.ref = [year |-> 2025, month |-> 2, date |-> 5,
                                       ms |-> DAY_MS \div 2]]
    /\ storageBySource = [x \in Users \cup {GROUP} |-> <<>>]
    /\ msg = NoMsg
    /\ WebIdle

\* the requests: without an event, with one event, and with two events:
\* the document and the small talk of the one-to-one chat, or the small
\* talk and the document of the group
WebhookRequests ==
    {<<>>} \cup {<<event>> : event \in WebhookEvents}
    \cup {events \in WebhookEvents \X WebhookEvents :
             <<events[1].replyToken, events[2].replyToken>> \in {<<1, 2>>, <<5, 4>>}}

WebhookNext ==
    \/ \E retryKey \in RetryKeys \cup {NoKey}, events \in WebhookRequests :
          webhook(retryKey, events)
    \/ \E i \in 1..MaxHandlers, downloaded \in BOOLEAN : handleEvent(i, downloaded)
    \/ \E i \in 1..MaxHandlers : chatReply(i)
    \/ Primary
    \/ \E i \in 1..MaxHandlers, reply \in {"ok", "token", "other"},
          push \in {"ok", "failed"} : replyOrPushSettles(i, reply, push)
    \/ \E t \in [id : 1..MaxImages, batchKey : Users] : timerFires(t)
    \/ \E i \in 1..MaxImages, delivered \in BOOLEAN : flushContinues(i, delivered)
    \/ clearRetries

WebhookSpec == WebhookInit /\ [][WebhookNext]_vars

\* text messages of one-to-one chats and of a group are handled one after
\* the other, the day of the server being 8 January, 20 February or 5 March
\* 2025: in the week after 12/29~01/04, before or after 02/23-03/01; a document
\* may have been loaded for u1, and the memory of u2 may hold one, left by
\* an exchange that Gemini or OpenRouter answered
MessageInit ==
    /\ env \in {[GEMINI_API_KEY |-> TRUE, OPENROUTER_API_KEY |-> TRUE,
                 OPENROUTER_MODEL |-> "A", OPENROUTER_MODEL_FALLBACKS |-> <<"A", "B">>,
                 ADMIN_USER_ID |-> a] : a \in {NoUser, "u1"}}
    /\ now = StartNow
    /\ ticks = 0
    /\ \E remembered \in
            {<<>>, <<Turn("user", <<"m1">>),
                     Turn("model", PIECES.week9 \o PIECES.marker \o PIECES.S
                                   \o Chars(MIN_SCHEDULE_LENGTH, "."))>>} :
         /\ chatHistoryCache =
              [u \in Users |-> IF u = "u2" /\ remembered # <<>>
                               THEN [history |-> 1, lastUpdated |-> StartNow]
                               ELSE NoEntry]
         /\ heap = [r \in Refs |-> IF r = 1 THEN remembered ELSE <<>>]
         /\ log = [u \in Users |-> IF u = "u2" THEN remembered ELSE <<>>]
         \* lines 171-175 and 210-212: the exchange that left the turns set
         \* the date, and counted when Gemini answered it
         /\ apiUsageTracker \in
              (IF remembered = <<>> THEN {[date |-> NoDate, flashCount |-> 0]}
               ELSE {[date |-> TaipeiDate(StartNow), flashCount |-> c] : c \in {0, 1}})
    /\ req = [s \in Slots |-> Idle]
    /\ started = 0
    /\ obs = NoObs
    /\ flex = NoFlex
    /\ sched \in {[NoSched EXCEPT !.ref = [year |-> 2025, month |-> d[1], date |-> d[2],
                                          ms |-> DAY_MS \div 2]] :
                    d \in {<<0, 8>>, <<1, 20>>, <<2, 5>>}}
    /\ \E loaded \in LoadedStores :
         /\ loaded["u2"] = <<>>
         /\ storageBySource = [x \in Users \cup {GROUP} |->
                                  IF x \in Users THEN loaded[x] ELSE <<>>]
    /\ msg = NoMsg
    /\ WebIdle

\* a request with one text message, the n-th of the run
TextRequest(type, u, raw, n) ==
    <<[type |-> type, userId |-> u,
       sourceId |-> IF type = "user" THEN u ELSE GROUP,
       message |-> "text", text |-> raw, replyToken |-> n]>>

MessageNext ==
    \/ \E type \in {"user", "group"}, u \in Users \cup {NoUser},
          raw \in MessageTexts :
          /\ type = "user" => u # NoUser
          /\ handled[NoKey].requests < MaxEvents
          /\ webhook(NoKey, TextRequest(type, u, raw, handled[NoKey].requests + 1))
    \/ \E i \in 1..MaxHandlers : handleEvent(i, TRUE)
    \/ \E i \in 1..MaxHandlers : chatReply(i)
    \/ Primary
    \/ Secondary
    \/ \E i \in 1..MaxHandlers, reply \in {"ok", "token", "other"},
          push \in {"ok", "failed"} : replyOrPushSettles(i, reply, push)

MessageSpec == MessageInit /\ [][MessageNext]_vars

\* at most this many messages are handled one after the other
MaxSelections == 2

\* the texts of a document and of the selection of a group: a document
\* with the line of the week (also with a trigger), one without it, and the
\* text of the button of group A
SelectionTexts ==
    LET P == PIECES
    IN  {filled(P.week9 \o P.marker \o P.A \o P.B, MIN_SCHEDULE_LENGTH),
         filled(P.week9 \o P.marker \o P.A \o P.B, MIN_SCHEDULE_LENGTH)
            \o <<"S", "t", "u", "a", "r", "t">>,
         filled(P.marker \o P.A, MIN_SCHEDULE_LENGTH),
         <<"U8AB2", "U8868", "A", "U7D44">>}

\* documents are pasted and groups are selected in one-to-one chats and in
\* a group, on 2 January or on 5 February 2025; the file may hold the
\* document of 12/29~01/04 for u1
SelectionInit ==
    /\ env = [GEMINI_API_KEY |-> TRUE, OPENROUTER_API_KEY |-> TRUE,
              OPENROUTER_MODEL |-> "A", OPENROUTER_MODEL_FALLBACKS |-> <<"A", "B">>,
              ADMIN_USER_ID |-> NoUser]
    /\ now = StartNow
    /\ ticks = 0
    /\ chatHistoryCache = [u \in Users |-> NoEntry]
    /\ heap = [r \in Refs |-> <<>>]
    /\ log = [u \in Users |-> <<>>]
    /\ apiUsageTracker = [date |-> NoDate, flashCount |-> 0]
    /\ req = [s \in Slots |-> Idle]
    /\ started = 0
    /\ obs = NoObs
    /\ flex = NoFlex
    /\ sched \in {[NoSched EXCEPT !.ref = [year |-> 2025, month |-> d[1], date |-> d[2],
                                          ms |-> DAY_MS \div 2]] :
                     d \in {<<0, 2>>, <<1, 5>>}}
    /\ \E loaded \in LoadedStores :
         /\ loaded["u2"] = <<>>
         /\ storageBySource = [x \in Users \cup {GROUP} |->
                                  IF x \in Users THEN loaded[x] ELSE <<>>]
    /\ msg = NoMsg
    /\ WebIdle

SelectionNext ==
    \/ \E type \in {"user", "group"}, u \in Users, raw \in SelectionTexts :
          /\ handled[NoKey].requests < MaxSelections
          /\ webhook(NoKey, TextRequest(type, u, raw, handled[NoKey].requests + 1))
    \/ \E i \in 1..MaxHandlers : handleEvent(i, TRUE)
    \/ \E i \in 1..MaxHandlers, reply \in {"ok", "token", "other"},
          push \in {"ok", "failed"} : replyOrPushSettles(i, reply, push)

SelectionSpec == SelectionInit /\ [][SelectionNext]_vars

\* text messages of two sources are received while time passes, a second
\* short of SCHEDULE_CLEANUP at a time, and while the handlers of earlier
\* ones wait for the provider or for the LINE client; the file holds a
\* document for u1 and may hold one for u2; only the key of Gemini is set
HandlerInit ==
    /\ GeminiInit
    /\ env = [GEMINI_API_KEY |-> TRUE, OPENROUTER_API_KEY |-> FALSE,
              OPENROUTER_MODEL |-> "A", OPENROUTER_MODEL_FALLBACKS |-> <<"A", "B">>]
    /\ apiUsageTracker.date = NoDate
    /\ flex = NoFlex
    /\ sched = NoSched
    /\ storageBySource \in {loaded \in LoadedStores : loaded["u1"] # <<>>}
    /\ msg = NoMsg
    /\ WebIdle

HandlerNext ==
    \/ \E u \in Users, raw \in HandlerTexts :
          /\ handled[NoKey].requests < MaxMessages
          /\ webhook(NoKey, TextRequest("user", u, raw, handled[NoKey].requests + 1))
    \/ \E i \in 1..MaxHandlers : handleEvent(i, TRUE)
    \/ \E i \in 1..MaxHandlers : chatReply(i)
    \/ Primary
    \/ \E i \in 1..MaxHandlers, reply \in {"ok", "token", "other"},
          push \in {"ok", "failed"} : replyOrPushSettles(i, reply, push)
    \/ Tick(SCHEDULE_CLEANUP - 1)

HandlerSpec == HandlerInit /\ [][HandlerNext]_vars

(***************************************************************************)
(* Vocabulary of the properties                                            *)
(***************************************************************************)
STANDARD == "gemini-2.5-flash"
REDUCED == "gemini-2.5-flash-lite"

IsSuffix(a, b) ==
    Len(a) <= Len(b) /\ \A i \in 1..Len(a) : a[i] = b[Len(b) - Len(a) + i]
\* the n last elements of h, in their order
MostRecent(h, n) ==
    IF Len(h) <= n THEN h ELSE [i \in 1..n |-> h[Len(h) - n + i]]

\* a text of blanks only (the empty text included)
Blank(m) == \A i \in 1..Len(m) : m[i] = " "
NotBlankChar(c) == c # " "
\* a message without its surrounding blanks (messages have no inner blank)
Stripped(m) == SelectSeq(m, NotBlankChar)

ModelsOf(att) == [i \in 1..Len(att) |-> att[i].model]
Suspended(s) == req[s].pc # "idle"

\* steps of a call in slot s
SelectStep(s) == req[s].pc = "idle" /\ req'[s].pc = "gemini"
SettleStep(s, pc) == req[s].pc = pc /\ req'[s] # req[s]
ReturnStep(s) == req[s].pc # "idle" /\ req'[s].pc = "idle"
\* the attempts of the call of slot s after the step, and the reply of the
\* attempt that settled in it
AttemptsAfter(s) == IF req'[s].pc = "idle" THEN obs'.attempts ELSE req'[s].attempts
SettledReply(s) == AttemptsAfter(s)[Len(AttemptsAfter(s))].reply

(***************************************************************************)
(* C1  provider order                                                      *)
(***************************************************************************)
C1_NotPreferred(m) == m # env.OPENROUTER_MODEL
\* the preferred model, then the fallbacks that are not the preferred one
C1_ModelList ==
    <<env.OPENROUTER_MODEL>> \o SelectSeq(env.OPENROUTER_MODEL_FALLBACKS, C1_NotPreferred)
C1_Candidates(tier) ==
    (IF env.GEMINI_API_KEY THEN <<tier>> ELSE <<>>)
    \o (IF env.OPENROUTER_API_KEY THEN C1_ModelList ELSE <<>>)
\* the attempts follow the candidate list from its start, and every attempt
\* before the last one gave no reply
C1_InOrder(att) ==
    /\ \E tier \in {STANDARD, REDUCED} : IsPrefix(ModelsOf(att), C1_Candidates(tier))
    /\ \A i \in 1..(Len(att) - 1) : att[i].reply = <<>>
C1_Pending(s) ==
    [model |-> IF req[s].pc = "gemini" THEN req[s].selectedModel
               ELSE req[s].models[req[s].idx],
     reply |-> <<>>]

\* C1: within one generateChatReply call the candidates are attempted in a
\* fixed order: Gemini first, iff its key is configured, and once; the
\* OpenRouter models only after the primary gave no reply and iff the
\* OpenRouter key is configured, in list order.  The first candidate with a
\* non-empty reply gives the value returned and nothing is attempted after
\* it; the fixed error reply is returned only when every candidate failed.
C1_FallbackOrder ==
    /\ \A s \in Slots : Suspended(s) =>
          /\ C1_InOrder(req[s].attempts \o <<C1_Pending(s)>>)
          /\ \A i \in 1..Len(req[s].attempts) : req[s].attempts[i].reply = <<>>
    /\ ~Blank(obs.userMessage) =>
          /\ C1_InOrder(obs.attempts)
          /\ IF obs.attempts # <<>> /\ obs.attempts[Len(obs.attempts)].reply # <<>>
             THEN obs.ret = obs.attempts[Len(obs.attempts)].reply
             ELSE /\ obs.ret = MODEL_ERROR
                  /\ \E tier \in {STANDARD, REDUCED} :
                        ModelsOf(obs.attempts) = C1_Candidates(tier)

\* the primary failed, model A failed, model B answered: B's text returned
C1_Witness ==
    /\ ModelsOf(obs.attempts) = <<STANDARD, "A", "B">>
    /\ obs.attempts[1].reply = <<>>
    /\ obs.attempts[2].reply = <<>>
    /\ obs.attempts[3].reply = <<"B">>
    /\ obs.ret = <<"B">>

(***************************************************************************)
(* C2  total failure                                                       *)
(***************************************************************************)
\* C2: a generateChatReply call that returns the fixed error reply (every
\* candidate failed) leaves the conversation memory and the usage tracker
\* (date, flashCount) as they were: the step in which the call gives up
\* changes neither.  (The counter is never decremented on the same date, so
\* an increment made by the failing call cannot be undone before it
\* returns.)
C2_FailureLeavesStateUnchanged ==
    [][\A s \in Slots :
          (ReturnStep(s) /\ obs'.ret = MODEL_ERROR) =>
              /\ apiUsageTracker' = apiUsageTracker
              /\ chatHistoryCache' = chatHistoryCache
              /\ \A u \in Users : EntryTurns(chatHistoryCache', heap', u)
                                  = EntryTurns(chatHistoryCache, heap, u)]_vars

(***************************************************************************)
(* C3  history bound                                                       *)
(***************************************************************************)
\* C3: after each of the successive exchanges of one identity the stored
\* history has at most MAX_HISTORY_LENGTH turns, and they are the most
\* recent turns stored for the identity, in their original order.
C3_HistoryBound ==
    \A u \in Users : chatHistoryCache[u] # NoEntry =>
        LET h == heap[chatHistoryCache[u].history]
        IN  /\ Len(h) <= MAX_HISTORY_LENGTH
            /\ h = MostRecent(log[u], Len(h))

\* four exchanges were stored and the two oldest turns were trimmed
C3_Witness ==
    /\ Len(log["u1"]) = 8
    /\ chatHistoryCache["u1"] # NoEntry
    /\ heap[chatHistoryCache["u1"].history] = SubSeq(log["u1"], 3, 8)

(***************************************************************************)
(* C4  what an exchange stores                                             *)
(***************************************************************************)
C4_NoLeak ==
    \A u \in Users : \A i \in 1..Len(EntryTurns(chatHistoryCache, heap, u)) :
        LET c == EntryTurns(chatHistoryCache, heap, u)[i].content
        IN  \A j \in 1..Len(c) : c[j] \notin {"G", "I"}

C4_Appends ==
    \A s \in Slots :
        (ReturnStep(s) /\ req[s].userId \in Users /\ obs'.ret # MODEL_ERROR) =>
            LET u == req[s].userId
                held == IF req[s].userHistory = 0 THEN <<>>
                        ELSE heap[req[s].userHistory]
                new == <<[role |-> "user", content |-> Stripped(req[s].userMessage)],
                         [role |-> "model", content |-> obs'.ret]>>
            IN  /\ chatHistoryCache'[u] # NoEntry
                /\ chatHistoryCache'[u].lastUpdated = now
                /\ EntryTurns(chatHistoryCache', heap', u)
                   = MostRecent(held \o new, MAX_HISTORY_LENGTH)

\* C4: a successful exchange of an identity appends to the history it read
\* one user turn (the trimmed message) followed by one model turn (the
\* reply) and stamps lastUpdated with the time of the store; neither the
\* system context (fifth argument) nor an image payload is ever part of the
\* content of a stored turn.
C4_StoresDialogueOnly == []C4_NoLeak /\ [][C4_Appends]_vars

\* an exchange that carried an image and a system context was stored
C4_Witness ==
    /\ obs.userId = "u1"
    /\ obs.systemContext = <<"G">>
    /\ obs.imageBase64 = <<"I">>
    /\ obs.ret = <<"g">>
    /\ chatHistoryCache["u1"] # NoEntry
    /\ chatHistoryCache["u1"].lastUpdated = now
    /\ EntryTurns(chatHistoryCache, heap, "u1")
       = <<[role |-> "user", content |-> Stripped(obs.userMessage)],
           [role |-> "model", content |-> <<"g">>]>>

(***************************************************************************)
(* C5  expiry                                                              *)
(***************************************************************************)
\* C5: an entry is expired exactly when now - lastUpdated exceeds
\* HISTORY_TTL_MS; both read paths (the read of generateChatReply and
\* getUserHistory) give no turns for an expired entry and delete it, give
\* the stored turns for an entry that is not expired, and so agree.
C5_ReadPathsAgree ==
    \A u \in Users : chatHistoryCache[u] # NoEntry =>
        LET e == chatHistoryCache[u]
            expired == now - e.lastUpdated > Seconds(HISTORY_TTL_MS)
        IN  /\ getUserHistoryValue(chatHistoryCache, heap, u, now)
               = IF expired THEN <<>> ELSE heap[e.history]
            /\ getDeletes(chatHistoryCache, u, now) <=> expired
            /\ historyRead(chatHistoryCache, u, now)
               = IF expired THEN 0 ELSE e.history
            /\ (cacheAfterRead(chatHistoryCache, u, now)[u] = NoEntry) <=> expired

(***************************************************************************)
(* C6  tier downgrade and daily reset                                      *)
(***************************************************************************)
C6_Step(s) ==
    LET today == TaipeiDate(now)
    IN  /\ SelectStep(s) =>
            IF apiUsageTracker.date = today
            THEN /\ apiUsageTracker' = apiUsageTracker
                 /\ (req'[s].selectedModel = REDUCED
                        <=> apiUsageTracker.flashCount >= FLASH_THRESHOLD)
                 /\ req'[s].selectedModel \in {STANDARD, REDUCED}
            ELSE /\ apiUsageTracker' = [date |-> today, flashCount |-> 0]
                 /\ req'[s].selectedModel = STANDARD
        /\ (/\ SettleStep(s, "gemini")
            /\ req[s].selectedModel = STANDARD
            /\ SettledReply(s) # <<>>
            /\ apiUsageTracker.flashCount = FLASH_THRESHOLD - 1) =>
               /\ apiUsageTracker'.flashCount = FLASH_THRESHOLD
               /\ apiUsageTracker'.date = apiUsageTracker.date

\* C6: when flashCount is FLASH_THRESHOLD - 1 and a successful standard
\* call is recorded, flashCount becomes FLASH_THRESHOLD, and a call that
\* selects its tier on the same Taipei date takes the reduced tier exactly
\* when flashCount >= FLASH_THRESHOLD; a call that finds another date
\* resets the counter to 0 and takes the standard tier.
C6_TierRollover == [][\A s \in Slots : C6_Step(s)]_vars

\* the counter stands at the threshold and a call on the same date has
\* selected the reduced tier
C6_Witness ==
    /\ apiUsageTracker = [date |-> TaipeiDate(now), flashCount |-> FLASH_THRESHOLD]
    /\ \E s \in Slots : req[s].pc = "gemini" /\ req[s].selectedModel = REDUCED

(***************************************************************************)
(* C7  what is counted                                                     *)
(***************************************************************************)
\* C7: the counter is incremented once for a successful (non-empty) call of
\* the primary provider on the standard tier, and not at all by a failed
\* primary attempt (exception or empty text) or by an OpenRouter call.
C7_CountsSuccessOnly ==
    [][\A s \in Slots :
          /\ SettleStep(s, "gemini") =>
                apiUsageTracker' =
                    [apiUsageTracker EXCEPT !.flashCount =
                        IF SettledReply(s) # <<>> /\ req[s].selectedModel = STANDARD
                        THEN @ + 1 ELSE @]
          /\ SettleStep(s, "openrouter") => apiUsageTracker' = apiUsageTracker]_vars

(***************************************************************************)
(* C8  the counter only grows within a date                                *)
(***************************************************************************)
C8_Step ==
    LET today == TaipeiDate(now)
    IN  \* the date only moves to today's, and then the counter restarts
        /\ apiUsageTracker'.date # apiUsageTracker.date =>
              /\ apiUsageTracker.date # today
              /\ apiUsageTracker' = [date |-> today, flashCount |-> 0]
        \* on an unchanged date the counter never goes down
        /\ apiUsageTracker'.date = apiUsageTracker.date =>
              apiUsageTracker'.flashCount >= apiUsageTracker.flashCount
        \* an access that finds today's date resets nothing
        /\ (apiUsageTracker.date = today /\ now' = now) =>
              apiUsageTracker'.date = today
        \* a call that reaches the primary leaves today's date behind
        /\ \A s \in Slots : SelectStep(s) => apiUsageTracker'.date = today

\* C8: the counter is never decremented; it goes back to 0 only by the
\* date rollover, detected by the first access (generateChatReply or
\* getApiUsageStatus) that finds a stored date other than today's, and
\* accesses on the stored date do not reset it.
C8_MonotoneWithinDate == [][C8_Step]_vars

\* a call selected the reduced tier (the counter had reached the
\* threshold), and the counter has since been reset by a date change
C8_Witness ==
    /\ apiUsageTracker = [date |-> TaipeiDate(StartNow) + 1, flashCount |-> 0]
    /\ \E s \in Slots : req[s].pc = "gemini" /\ req[s].selectedModel = REDUCED

(***************************************************************************)
(* C9  blank message                                                       *)
(***************************************************************************)
\* a call that returned in the step it was made
C9_ImmediateReturn == started' = started + 1 /\ req' = req

\* C9: generateChatReply with an empty or blank message returns the fixed
\* "no message" reply at once: no prompt is composed, no provider is
\* called, and the conversation memory (an expired entry included) and the
\* usage tracker are left as they were.
C9_BlankMessage ==
    /\ [](\A s \in Slots : Suspended(s) => ~Blank(req[s].userMessage))
    /\ [](Blank(obs.userMessage) /\ obs # NoObs =>
             obs.ret = NO_MESSAGE /\ obs.attempts = <<>>)
    /\ [][(C9_ImmediateReturn /\ Blank(obs'.userMessage)) =>
             UNCHANGED <<chatHistoryCache, heap, apiUsageTracker, log>>]_vars

\* a blank message of u1 was answered while u1's entry was expired and the
\* tracker's date was stale: neither was touched
C9_Witness ==
    /\ obs.userMessage = <<" ">>
    /\ obs.userId = "u1"
    /\ obs.ret = NO_MESSAGE
    /\ chatHistoryCache["u1"] # NoEntry
    /\ now - chatHistoryCache["u1"].lastUpdated >= Seconds(HISTORY_TTL_MS)
    /\ apiUsageTracker.date # TaipeiDate(now)
    /\ apiUsageTracker.flashCount = FLASH_THRESHOLD

(***************************************************************************)
(* C10  timeouts                                                           *)
(***************************************************************************)
\* C10: every provider call is bounded by a timeout, so every
\* generateChatReply call eventually returns, whether or not the provider
\* ever answers.
C10_EveryCallReturns ==
    \A s \in Slots : Suspended(s) ~> ~Suspended(s)

(***************************************************************************)
(* C11  order of the stored turns, concurrent exchanges of one identity    *)
(***************************************************************************)
\* a is b with some elements left out, the others in their order
RECURSIVE IsSubsequence(_, _)
IsSubsequence(a, b) ==
    IF a = <<>> THEN TRUE
    ELSE IF b = <<>> THEN FALSE
    ELSE IF Head(a) = Head(b) THEN IsSubsequence(Tail(a), Tail(b))
    ELSE IsSubsequence(a, Tail(b))

\* the exchange that completed in this step wrote the entry
C11_LastWriteWins ==
    \A s \in Slots :
        (ReturnStep(s) /\ req[s].userId \in Users /\ obs'.ret # MODEL_ERROR) =>
            LET u == req[s].userId
                h == EntryTurns(chatHistoryCache', heap', u)
            IN  /\ chatHistoryCache'[u] # NoEntry
                /\ chatHistoryCache'[u].lastUpdated = now
                /\ Len(h) >= 2
                /\ h[Len(h) - 1] = [role |-> "user",
                                    content |-> Stripped(req[s].userMessage)]
                /\ h[Len(h)] = [role |-> "model", content |-> obs'.ret]

\* C11: the turns of a stored history are in the order in which they were
\* appended (a subsequence of the turns stored for the identity, in their
\* order), and the entry found after concurrent exchanges of one identity
\* is the one written by the exchange that completed last: it ends with the
\* two turns of the last completed exchange.
C11_InsertionOrder ==
    /\ [](\A u \in Users : chatHistoryCache[u] # NoEntry =>
            LET h == heap[chatHistoryCache[u].history]
            IN  /\ IsSubsequence(h, log[u])
                /\ Len(h) >= 2
                /\ SubSeq(h, Len(h) - 1, Len(h))
                   = SubSeq(log[u], Len(log[u]) - 1, Len(log[u])))
    /\ [][C11_LastWriteWins]_vars

\* calls 1 and 2 of u1 were in flight together (2 was started later and
\* completed first), both were stored on the array they shared, call 1 last
C11_Witness ==
    /\ NoneInFlight
    /\ log["u1"] = EarlierTurns \o pushedTurns(<<"m2">>, <<"g">>)
                    \o pushedTurns(<<"m1">>, <<"g">>)
    /\ chatHistoryCache["u1"] # NoEntry
    /\ heap[chatHistoryCache["u1"].history] = SubSeq(log["u1"], 3, 8)

(***************************************************************************)
(* C12  an exchange touches the entry of its own identity only             *)
(***************************************************************************)
\* the identity of the call that takes the step, NoUser when the step is
\* not a step of a generateChatReply call
C12_Caller ==
    IF started' = started + 1 /\ req' = req THEN obs'.userId
    ELSE IF \E s \in Slots : req'[s] # req[s]
    THEN LET s == CHOOSE x \in Slots : req'[x] # req[x]
         IN  IF req[s].pc = "idle" THEN req'[s].userId ELSE req[s].userId
    ELSE NoUser

C12_Frame ==
    (started' # started \/ req' # req) =>
        \A v \in Users \ {C12_Caller} :
            /\ chatHistoryCache'[v] = chatHistoryCache[v]
            /\ EntryTurns(chatHistoryCache', heap', v)
               = EntryTurns(chatHistoryCache, heap, v)

\* while another call is in flight, a suspended call can take its next step
C12_NoWaiting ==
    \A s \in Slots : (\E q \in Slots \ {s} : Suspended(q)) =>
        /\ req[s].pc = "gemini" =>
              ENABLED (\E o \in GeminiOutcomes :
                          \E w \in {GeminiSettles(World, s, o)} : Step(w))
        /\ req[s].pc = "openrouter" =>
              ENABLED (\E o \in OpenRouterOutcomes(req[s].models[req[s].idx]) :
                          \E w \in {OpenRouterSettles(World, s, o)} : Step(w))

\* C12: a step of an exchange of identity A (its start, the settling of a
\* provider call, its return; successful or failed) leaves the entry of
\* every other identity B as it was: not created, modified, deleted or
\* re-stamped; and no step of the exchange waits for a request of B: each
\* of its provider calls can settle while B's request is in flight.
C12_OtherIdentitiesUntouched == []C12_NoWaiting /\ [][C12_Frame]_vars

\* u1's exchange was started first and stored last, u2's ran to its end in
\* between: u2's entry holds u2's turns only, with its own earlier stamp
C12_Witness ==
    /\ obs.userId = "u1"
    /\ log["u1"] = pushedTurns(<<"m1">>, <<"g">>)
    /\ log["u2"] = pushedTurns(<<"m2">>, <<"g">>)
    /\ chatHistoryCache["u1"] # NoEntry
    /\ chatHistoryCache["u2"] # NoEntry
    /\ EntryTurns(chatHistoryCache, heap, "u2") = log["u2"]
    /\ EntryTurns(chatHistoryCache, heap, "u1") = log["u1"]
    /\ chatHistoryCache["u2"].lastUpdated < chatHistoryCache["u1"].lastUpdated

(***************************************************************************)
(* C13-C15  the reply rendered as cards or as plain text                   *)
(***************************************************************************)
\* the reply has been rendered
Rendered == flex.sent # <<>>
\* the elements of the array in the fenced block of the reply; <<>> when
\* there is no block or its content is not a JSON array
FencedItems ==
    LET m == fenceMatch(flex.aiResponse)
    IN  IF m.from # 0 /\ JSONparse(m.group).kind = "array"
        THEN JSONparse(m.group).items ELSE <<>>
\* the fenced content parses as an array of records
FencedRecords ==
    /\ fenceMatch(flex.aiResponse).from # 0
    /\ JSONparse(fenceMatch(flex.aiResponse).group).kind = "array"
    /\ \A i \in 1..Len(FencedItems) : FencedItems[i] \in Objects
\* the text of the reply outside the fenced block
Outside ==
    LET m == fenceMatch(flex.aiResponse)
    IN  SubSeq(flex.aiResponse, 1, m.from - 1)
        \o SubSeq(flex.aiResponse, m.to + 1, Len(flex.aiResponse))
\* the field f of the record r is there and is not empty
Given(r, f) ==
    r \in Objects /\ f \in DOMAIN JsonLexemes[r] /\ JsonLexemes[r][f] # <<>>

\* C13: when the reply holds no fenced block, or the fenced content does
\* not parse as an array of records, tryParseFlexResponse returns null and
\* handleMessage sends the raw reply, verbatim, as one plain-text message.
C13_NullUnlessRecords ==
    (Rendered /\ ~FencedRecords) =>
        /\ tryParseFlexResponse(flex.aiResponse) = <<>>
        /\ flex.sent = <<[type |-> "text", text |-> flex.aiResponse]>>

\* lead is text without the white space around it
C14_IsTrimOf(lead, text) ==
    /\ lead # <<>> => lead[1] \notin Whitespace /\ lead[Len(lead)] \notin Whitespace
    /\ \E i \in 1..(Len(text) + 1) :
          /\ i + Len(lead) - 1 <= Len(text)
          /\ \A k \in 1..Len(text) :
                IF k >= i /\ k < i + Len(lead) THEN text[k] = lead[k - i + 1]
                ELSE text[k] \in Whitespace

\* the card c shows the record r, a default standing for a missing field
C14_Shows(c, r) ==
    /\ c.name = IF Given(r, "name") THEN JsonLexemes[r].name
                ELSE <<"U672A", "U77E5", "U540D", "U7A31">>
    /\ c.rating = <<"U2B50", " ">>
                  \o (IF Given(r, "rating") THEN JsonLexemes[r].rating ELSE <<"U7121">>)
    /\ c.price = <<"U1F4B0", " ">>
                 \o (IF Given(r, "price") THEN JsonLexemes[r].price ELSE <<"U7121">>)
    /\ c.item = <<"U1F35C", " ">>
                \o (IF Given(r, "item") THEN JsonLexemes[r].item ELSE <<"U7121">>)

\* the reply was rendered as its lead and one card for each of the first
\* `count` records, in array order
C14_Cards(count) ==
    LET lead == IF Len(flex.sent) = 2 THEN flex.sent[1].text ELSE <<>>
        cards == flex.sent[Len(flex.sent)]
    IN  /\ Len(flex.sent) \in {1, 2}
        /\ Len(flex.sent) = 2 => flex.sent[1].type = "text" /\ lead # <<>>
        /\ C14_IsTrimOf(lead, Outside)
        /\ cards.type = "flex"
        /\ Len(cards.contents) = count
        /\ \A i \in 1..count : C14_Shows(cards.contents[i], FencedItems[i])

\* C14 as stated: when the fenced content parses as an array of objects,
\* the trimmed text outside the block is the lead and every element of the
\* array yields one record, in array order, with the defaults.
C14_EveryElement ==
    (Rendered /\ FencedRecords /\ FencedItems # <<>>) =>
        C14_Cards(Len(FencedItems))

\* C14, amended: when the fenced content parses as an array of objects, the
\* trimmed text outside the block is the lead and each of the first
\* MAX_BUBBLES (10) elements of the array yields one record, in array
\* order, with a default for each missing field; further elements are
\* dropped.
C14_FirstTenElements ==
    (Rendered /\ FencedRecords /\ FencedItems # <<>>) =>
        C14_Cards(IF Len(FencedItems) > MAX_BUBBLES THEN MAX_BUBBLES
                  ELSE Len(FencedItems))

\* a lead and eleven records were given: the lead and ten cards are sent,
\* the first for the first record, defaults on it, the eleventh dropped
C14_Witness ==
    /\ Rendered
    /\ FencedRecords
    /\ Len(FencedItems) = MAX_BUBBLES + 1
    /\ FencedItems[1] = "ftp"
    /\ Len(flex.sent) = 2
    /\ flex.sent[1].text = <<"x", "\n", "\n", "y">>
    /\ Len(flex.sent[2].contents) = MAX_BUBBLES
    /\ flex.sent[2].contents[1].name = <<"b">>
    /\ flex.sent[2].contents[1].price = <<"U1F4B0", " ", "U7121">>
    /\ flex.sent[2].contents[MAX_BUBBLES].name = <<"a">>

\* C15: the link of every card is an absolute http(s) URL of at most
\* MAX_URI_LENGTH (1000) characters, and a mapUrl that does not parse, is
\* not http(s), or is longer than the maximum is replaced by the search
\* URL built from the record's name, cut to the maximum.
C15_SafeLink ==
    Rendered =>
        \A k \in 1..Len(flex.sent) : flex.sent[k].type = "flex" =>
            \A i \in 1..Len(flex.sent[k].contents) :
                LET r == FencedItems[i]
                    uri == flex.sent[k].contents[i].uri
                    given == Field(r, "mapUrl")
                    search == SEARCH_URL \o encodeURIComponent(
                                  IF Given(r, "name") THEN JsonLexemes[r].name
                                  ELSE <<"U9910", "U5EF3">>)
                    unfit == \/ ~urlParses(given)
                             \/ ~(IsPrefix(HTTP, given) \/ IsPrefix(HTTPS, given))
                             \/ Len(given) > MAX_URI_LENGTH
                IN  /\ Len(uri) <= MAX_URI_LENGTH
                    /\ urlParses(uri)
                    /\ IsPrefix(HTTP, uri) \/ IsPrefix(HTTPS, uri)
                    /\ unfit => uri = SubSeq(search, 1,
                                             IF Len(search) > MAX_URI_LENGTH
                                             THEN MAX_URI_LENGTH ELSE Len(search))

(***************************************************************************)
(* C16  the gate of the schedule texts                                     *)
(***************************************************************************)
\* keyword k stands somewhere in the text
Occurs(k, text) ==
    \E i \in 1..Len(text) :
        /\ i + Len(k) - 1 <= Len(text)
        /\ SubSeq(text, i, i + Len(k) - 1) = k

\* how many of the six keywords stand in the text
KeywordCount(text) == Cardinality({k \in KEYWORDS : Occurs(k, text)})

\* the gate has answered
Gated == sched.step \in {"gated", "parsed"}

\* C16 as stated: isTrainingSchedule(text) is true exactly when the length of
\* the text exceeds the minimum length and at least 3 of the six keywords
\* occur in it.
C16_ExceedsFloor ==
    Gated =>
        (sched.isSchedule <=>
            /\ Len(sched.text) > MIN_SCHEDULE_LENGTH
            /\ KeywordCount(sched.text) >= 3)

\* C16, amended: isTrainingSchedule(text) is true exactly when the length of
\* the text is at least the minimum length and at least 3 of the six keywords
\* occur in it; so a text with only 2 keywords is rejected whatever its
\* length, and a text under the minimum length whatever its keywords.
C16_AtLeastFloor ==
    Gated =>
        /\ sched.isSchedule <=>
              /\ Len(sched.text) >= MIN_SCHEDULE_LENGTH
              /\ KeywordCount(sched.text) >= 3
        /\ KeywordCount(sched.text) <= 2 => ~sched.isSchedule
        /\ Len(sched.text) < MIN_SCHEDULE_LENGTH => ~sched.isSchedule

\* a text of exactly the minimum length with exactly 3 keywords is accepted
C16_Witness ==
    /\ Gated
    /\ sched.isSchedule
    /\ Len(sched.text) = MIN_SCHEDULE_LENGTH
    /\ KeywordCount(sched.text) = 3

(***************************************************************************)
(* C17  pace per kilometre to seconds per 200 m lap                        *)
(***************************************************************************)
\* the number a decimal digit stands for
DigitValue(d) == CHOOSE n \in 0..9 : ToString(n) = d

\* 60*MM + SS of a pace MM:SS
PaceSeconds(p) ==
    60 * (10 * DigitValue(p[1]) + DigitValue(p[2]))
        + 10 * DigitValue(p[4]) + DigitValue(p[5])

\* C17: for every pace MM:SS, paceSeconds = 60*MM + SS, the lap time is the
\* integer nearest to paceSeconds / 5, and 5 * lapSeconds differs from
\* paceSeconds by at most 2.
C17_LapWithinTwo ==
    sched.step = "converted" =>
        LET paceSeconds == PaceSeconds(sched.pace)
            lapSeconds == sched.lapTime
        IN  /\ sched.seconds = paceSeconds
            /\ 2 * (5 * lapSeconds - paceSeconds) \in -5..5
            /\ 5 * lapSeconds - paceSeconds \in -2..2

\* 04:00 is 240 s and gives 48 s; 03:58 is rounded up to 48 s as well
C17_Witness ==
    /\ sched.step = "converted"
    /\ sched.pace = <<"0", "3", ":", "5", "8">>
    /\ sched.seconds = 238
    /\ sched.lapTime = 48

(***************************************************************************)
(* C18  the groups of a parsed document                                    *)
(***************************************************************************)
\* the parser has answered with a document
Parsed == sched.step = "parsed" /\ sched.parsed # NoSchedule

\* C18: every group of every document returned by parseSchedule has as many
\* lap times as paces, a distance of 800 or 1200, and 6 laps per repetition
\* when the distance is 1200 and 4 otherwise.
C18_GroupShape ==
    Parsed =>
        \A i \in 1..Len(sched.parsed.groups) :
            LET g == sched.parsed.groups[i]
            IN  /\ Len(g.lapTimes) = Len(g.paces)
                /\ g.distance \in {<<"8", "0", "0">>, <<"1", "2", "0", "0">>}
                /\ g.lapsPerRep = IF g.distance = <<"1", "2", "0", "0">> THEN 6 ELSE 4

\* a document with a group of 1200 m and two paces, a group of 800 m, and a
\* group whose pace tokens were all dropped
C18_Witness ==
    /\ Parsed
    /\ \E i, j, k \in 1..Len(sched.parsed.groups) :
        /\ sched.parsed.groups[i].lapsPerRep = 6
        /\ Len(sched.parsed.groups[i].paces) = 2
        /\ sched.parsed.groups[j].lapsPerRep = 4
        /\ sched.parsed.groups[j].distance = <<"8", "0", "0">>
        /\ sched.parsed.groups[k].paces = <<>>

(***************************************************************************)
(* C19, C20  a text message and the cache of the documents                 *)
(***************************************************************************)
\* what the gate and the parser make of the text of a message
TextOutcome ==
    [t \in {trim(raw) : raw \in HandlerTexts} |->
        [isSchedule |-> isTrainingSchedule(t), parsed |-> parseSchedule(t)]]

\* in this step handleMessage takes up a message: the call gets past
\* getProfile and the text takes its route
TextReceived == msg'.handled = msg.handled + 1

\* the text of the message of the handleMessage call that moved last
TextOf(seen) == trim(seen.event.text)

\* this step takes up a message whose document is written to the cache
DocumentCached ==
    /\ TextReceived
    /\ msg'.kind = "schedule"
    /\ TextOutcome[TextOf(msg')].parsed.periodStr # <<>>

\* the places of the entries of source u for period p
EntriesOf(storage, u, p) == {i \in 1..Len(storage[u]) : storage[u][i].period = p}

\* the entries of source u for the periods other than p, in their order
OtherPeriods(storage, u, p) ==
    LET Other(e) == e.period # p IN SelectSeq(storage[u], Other)

\* after a write for source u and period p there is exactly one entry for p,
\* holding the document just parsed, and the entries of the other periods
\* of u are as before
C19_Overwritten ==
    LET u == msg'.event.sourceId
        doc == TextOutcome[TextOf(msg')].parsed
    IN  /\ Cardinality(EntriesOf(storageBySource', u, doc.periodStr)) = 1
        /\ \A i \in EntriesOf(storageBySource', u, doc.periodStr) :
              storageBySource'[u][i].data = doc
        /\ OtherPeriods(storageBySource', u, doc.periodStr)
              = OtherPeriods(storageBySource, u, doc.periodStr)

\* C19 as stated: a cacheSchedule call for a source and a period that has a
\* cached entry leaves exactly one entry for that period, holding the later
\* document; the entries of other periods and of other sources are
\* unchanged.
C19_OthersUnchanged ==
    [][DocumentCached =>
        /\ C19_Overwritten
        /\ \A v \in Users \ {msg'.event.sourceId} :
              storageBySource'[v] = storageBySource[v]]_vars

\* C19, amended: a cacheSchedule call for a source and a period that has a
\* cached entry leaves exactly one entry for that period, holding the later
\* document; the entries of other periods of that source are unchanged, and
\* so are the entries of every other source that has an entry written at
\* most SCHEDULE_CLEANUP before the call.
C19_ActiveOthersUnchanged ==
    [][DocumentCached =>
        /\ C19_Overwritten
        /\ \A v \in Users \ {msg'.event.sourceId} :
              (\E i \in 1..Len(storageBySource[v]) :
                  now - storageBySource[v][i].timestamp <= SCHEDULE_CLEANUP)
              => storageBySource'[v] = storageBySource[v]]_vars

\* the acknowledgement of a document has been delivered whose entry stands
\* in the place of an older document of its period, before an entry of
\* another period that was written earlier, and another source has entries
C19_Witness ==
    /\ msg.step = "done"
    /\ msg.kind = "schedule"
    /\ ~msg.thrown
    /\ Len(storageBySource[msg.event.sourceId]) = 2
    /\ storageBySource[msg.event.sourceId][1].data = TextOutcome[TextOf(msg)].parsed
    /\ storageBySource[msg.event.sourceId][1].timestamp
          > storageBySource[msg.event.sourceId][2].timestamp
    /\ storageBySource[msg.event.sourceId][2].timestamp >= StartNow
    /\ \E v \in Users \ {msg.event.sourceId} : storageBySource[v] # <<>>

\* the text of the message passes the gate and is not parsed
Unparsed(text) == TextOutcome[text].isSchedule /\ TextOutcome[text].parsed = NoSchedule

\* C20: parseSchedule returns null, never a document without a group, when
\* no group is parsed (so for a text without an interval line); for a text
\* that passes the gate and parses to null, handleMessage leaves the cache
\* as it is, sends no message of its own, and gives the text to
\* generateChatReply, whose answer is the only message sent.
C20_FallsThroughToChat ==
    [][/\ TextReceived =>
            /\ TextOutcome[TextOf(msg')].parsed.groups = <<>>
                  => TextOutcome[TextOf(msg')].parsed = NoSchedule
            /\ ~Occurs(<<"@">>, TextOf(msg'))
                  => TextOutcome[TextOf(msg')].parsed = NoSchedule
            /\ Unparsed(TextOf(msg')) =>
                  /\ storageBySource' = storageBySource
                  /\ msg'.sent = <<>>
                  /\ msg'.step = "showLoadingAnimation"
                  /\ msg'.promptText = TextOf(msg')
       /\ \A i \in 1..Len(background) :
            Len(background') = Len(background) =>
              /\ (background[i].step = "showLoadingAnimation"
                  /\ background'[i].step = "generateChatReply") =>
                    /\ storageBySource' = storageBySource
                    /\ background'[i].sent = <<>>
                    /\ req'[background'[i].slot].userMessage
                          = trim(background[i].event.text)
              /\ (background[i].step = "generateChatReply"
                  /\ background'[i].step = "replyMessage") =>
                    /\ storageBySource' = storageBySource
                    /\ obs'.userMessage = trim(background[i].event.text)
                    /\ background'[i].sent = <<[type |-> "text", text |-> obs'.ret]>>]_vars

\* the answer of the provider to a text that passed the gate and was not
\* parsed has been given to replyMessage, beside a cache that holds a
\* document
C20_Witness ==
    \E i \in 1..Len(background) :
        /\ background[i].step = "replyMessage"
        /\ Unparsed(trim(background[i].event.text))
        /\ obs.userMessage = trim(background[i].event.text)
        /\ background[i].sent = <<[type |-> "text", text |-> <<"g">>]>>
        /\ \E v \in Users : storageBySource[v] # <<>>

(***************************************************************************)
(* C21  the purge at write time                                            *)
(***************************************************************************)
\* C21: after a write to the cache (cacheSchedule, which ends with
\* saveSchedulesToDB) no entry written more than SCHEDULE_CLEANUP before
\* the write remains in the store.
C21_NoEntryBeyondHorizon ==
    [][DocumentCached =>
        \A v \in Users : \A i \in 1..Len(storageBySource'[v]) :
            now - storageBySource'[v][i].timestamp <= SCHEDULE_CLEANUP]_vars

(***************************************************************************)
(* C22  a reference date and a period                                      *)
(***************************************************************************)
\* the parts of a period: what stands between its '-', its '~' and its
\* white space
PeriodParts(period) ==
    LET Dash(c) == IF c \in {"~", " ", "\n", "\t"} THEN "-" ELSE c
        NonEmpty(x) == x # <<>>
    IN  SelectSeq(split([i \in 1..Len(period) |-> Dash(period[i])], "-"), NonEmpty)

\* the text is MM/DD
IsMonthDay(p) ==
    /\ Len(p) = 5
    /\ p[3] = "/"
    /\ \A i \in {1, 2, 4, 5} : p[i] \in Digits

\* the month and the day of a text that begins with MM/DD
MonthDay(p) == <<10 * DigitValue(p[1]) + DigitValue(p[2]),
                 10 * DigitValue(p[4]) + DigitValue(p[5])>>

\* the fields of a part: what stands between its '/'
FieldsOf(p) == split(p, "/")

\* the number that the decimal digits f write, 0 for no digit
RECURSIVE DecimalValue(_)
DecimalValue(f) ==
    IF f = <<>> THEN 0
    ELSE 10 * DecimalValue(SubSeq(f, 1, Len(f) - 1)) + DigitValue(f[Len(f)])

\* the part has two fields at least, and its first two hold digits only
HasTwoNumbers(p) ==
    /\ Len(FieldsOf(p)) >= 2
    /\ \A k \in {1, 2} : \A i \in 1..Len(FieldsOf(p)[k]) : FieldsOf(p)[k][i] \in Digits

\* the numbers of the first two fields of a part
TwoNumbers(p) == <<DecimalValue(FieldsOf(p)[1]), DecimalValue(FieldsOf(p)[2])>>

\* the calendar: the days of month m (1..12) of year y
DaysIn(y, m) ==
    IF m = 2 THEN (IF (y % 4 = 0 /\ y % 100 # 0) \/ y % 400 = 0 THEN 29 ELSE 28)
    ELSE IF m \in {4, 6, 9, 11} THEN 30 ELSE 31

\* the days of year y before its month m (1..12)
RECURSIVE DaysBeforeMonth(_, _)
DaysBeforeMonth(y, m) ==
    IF m = 1 THEN 0 ELSE DaysBeforeMonth(y, m - 1) + DaysIn(y, m - 1)

\* the days from 1 January 2020 to the end of the year before y
RECURSIVE DaysBeforeYear(_)
DaysBeforeYear(y) ==
    IF y <= 2020 THEN 0 ELSE DaysBeforeYear(y - 1) + DaysBeforeMonth(y - 1, 12) + 31

\* the number of the day d of month m of year y, counted from 1 January
\* 2020; a month outside 1..12 is a month of a neighbouring year and a day
\* outside the month a day of a neighbouring month, as for new Date(y, m - 1, d)
DayNumber(y, m, d) ==
    LET year == y + ((m - 1) \div 12)
        month == ((m - 1) % 12) + 1
    IN  DaysBeforeYear(year) + DaysBeforeMonth(year, month) + d

\* the day with number n, moved to the same month and day of year y (29
\* February to 1 March when y has none)
SameDayOf(y, n) ==
    LET year == CHOOSE x \in 2020..2035 :
                    DaysBeforeYear(x) < n /\ n <= DaysBeforeYear(x + 1)
        month == CHOOSE m \in 1..12 :
                    /\ DayNumber(year, m, 1) <= n
                    /\ n < DayNumber(year, m, 1) + DaysIn(year, m)
    IN  DayNumber(y, month, n - DayNumber(year, month, 1) + 1)

\* the reference date lies between the start of the start day and the end
\* of the end day, start and end being <<month, day>> in the year of the
\* reference date; when the end precedes the start the range crosses the
\* year boundary: the start is moved one year back when the reference date
\* is in January or February, else the end is moved one year on
InPeriod(ref, start, end) ==
    LET first == DayNumber(ref.year, start[1], start[2])
        last == DayNumber(ref.year, end[1], end[2])
        crossing == last < first
        early == ref.month + 1 \in {1, 2}
        from == IF crossing /\ early THEN SameDayOf(ref.year - 1, first) ELSE first
        to == IF crossing /\ ~early THEN SameDayOf(ref.year + 1, last) ELSE last
        day == DayNumber(ref.year, ref.month + 1, ref.date)
    IN  from <= day /\ day <= to

\* C22 as stated: isDateInPeriod is false for a null period or one that
\* does not split into exactly two MM/DD parts; otherwise it is true
\* exactly when the reference date lies in the period.
C22_TwoMonthDayParts ==
    sched.step = "checked" =>
        LET parts == PeriodParts(sched.period)
        IN  sched.inPeriod <=>
              /\ Len(parts) = 2
              /\ IsMonthDay(parts[1]) /\ IsMonthDay(parts[2])
              /\ InPeriod(sched.ref, MonthDay(parts[1]), MonthDay(parts[2]))

\* C22, amended: isDateInPeriod is false for a null period, for one that
\* does not split into exactly two parts, and when one of the first two
\* fields of a part is missing or holds another character than a digit;
\* otherwise the parts are read as the numbers of their first two fields
\* (of any length, 0 for an empty field, what follows a further '/' not
\* being read, a month or day outside the calendar carried over) and it is
\* true exactly when the reference date lies in the period.
C22_TwoPartsOfTwoNumbers ==
    sched.step = "checked" =>
        LET parts == PeriodParts(sched.period)
        IN  sched.inPeriod <=>
              /\ Len(parts) = 2
              /\ HasTwoNumbers(parts[1]) /\ HasTwoNumbers(parts[2])
              /\ InPeriod(sched.ref, TwoNumbers(parts[1]), TwoNumbers(parts[2]))

\* 4 January 2025 in the last millisecond of the day lies in 12/29~01/04
C22_Witness ==
    /\ sched.step = "checked"
    /\ sched.inPeriod
    /\ sched.period = <<"1", "2", "/", "2", "9", "~", "0", "1", "/", "0", "4">>
    /\ sched.ref = [year |-> 2025, month |-> 0, date |-> 4, ms |-> DAY_MS - 1]

(***************************************************************************)
(* C23  the batches of images                                              *)
(***************************************************************************)
\* the armed timers that will flush the batch of u
ArmedFor(u) == {t \in timers : t.batchKey = u}

\* the places that hold image n: the batches being collected and the
\* batches taken by a flush
HoldersOf(n) ==
    {<<"queue", u>> : u \in {v \in DOMAIN imageBatchQueue :
                               \E j \in 1..Len(imageBatchQueue[v].images) :
                                   imageBatchQueue[v].images[j] = n}}
    \cup {<<"flush", i>> : i \in {k \in 1..Len(flushes) :
                               \E j \in 1..Len(flushes[k].images) :
                                   flushes[k].images[j] = n}}

\* C23: a user has a batch in the queue exactly while one timer is armed for
\* it, and never more than one timer; an image that arrives is put at the
\* end of the batch of its user and its timer replaces the armed one; a timer
\* that fires takes the whole batch out of the queue in the step that starts
\* the flush, before any of its awaits; and every image is held by exactly
\* one batch, collected or flushed, so no flush sees what another one took.
C23_OneBatchOneTimer ==
    [][/\ \A u \in Users :
            /\ Cardinality(ArmedFor(u)') <= 1
            /\ (u \in DOMAIN imageBatchQueue') <=> (ArmedFor(u)' # {})
       /\ arrived' # arrived =>
            \E u \in Users :
                /\ ArmedFor(u)' = {[id |-> arrived', batchKey |-> u]}
                /\ imageBatchQueue'[u].images =
                     (IF u \in DOMAIN imageBatchQueue
                      THEN imageBatchQueue[u].images ELSE <<>>) \o <<arrived'>>
       /\ Len(flushes') # Len(flushes) =>
            LET flush == flushes'[Len(flushes')]
            IN  /\ flush.step = "showLoadingAnimation"
                /\ flush.batchKey \notin DOMAIN imageBatchQueue'
                /\ flush.images = imageBatchQueue[flush.batchKey].images
       /\ \A n \in 1..arrived' : Cardinality(HoldersOf(n)') = 1]_vars

\* two images of a user are being flushed together while a third image of
\* the same user, arrived during the flush, waits in a new batch
C23_Witness ==
    \E i \in 1..Len(flushes) :
        /\ Len(flushes[i].images) = 2
        /\ flushes[i].step = "generateChatReply"
        /\ flushes[i].batchKey \in DOMAIN imageBatchQueue
        /\ Cardinality(ArmedFor(flushes[i].batchKey)) = 1

(***************************************************************************)
(* C24  requests delivered again                                           *)
(***************************************************************************)
\* C24: the events of the requests that carry one x-line-retry-key are
\* handed to the handlers at most once.
C24_HandledAtMostOnce == \A k \in RetryKeys : handled[k].requests <= 1

\* C24, between two runs of the interval that empties processedRetries: a
\* request whose key is kept is skipped.
C24_SkippedWhileKept ==
    [][\A k \in RetryKeys :
          k \in processedRetries => handled'[k].requests = handled[k].requests]_vars

(***************************************************************************)
(* C25  the group chats and the trigger keywords                           *)
(***************************************************************************)
\* the text holds one of the names the bot is called by
HasTrigger(text) ==
    \E word \in {<<"U53F2", "U90FD", "U83EF">>, <<"s", "t", "u">>, <<"S", "t", "u">>} :
       \E i \in 1..Len(text) :
          /\ i + Len(word) - 1 <= Len(text)
          /\ SubSeq(text, i, i + Len(word) - 1) = word

\* this step is the handling of a message
Handles == msg'.handled = msg.handled + 1

\* this step leaves the memory, the usage counter, the cache of the documents
\* and the calls of the providers as they are
Untouched ==
    /\ chatHistoryCache' = chatHistoryCache
    /\ heap' = heap
    /\ log' = log
    /\ apiUsageTracker' = apiUsageTracker
    /\ storageBySource' = storageBySource
    /\ started' = started
    /\ req' = req

\* C25: in a group or room chat, the handling of a text that holds none of
\* the trigger keywords sends no message, calls no provider and changes
\* neither the memory, nor the usage counter, nor the cache of the
\* documents; in a one-to-one chat a text without a keyword is handled: a
\* message is sent for it or the provider is asked.
C25_SilentWithoutTrigger ==
    [][Handles =>
         /\ (msg'.event.type # "user" /\ ~HasTrigger(msg'.event.text)) =>
               \* handleMessage has returned: its call is no more
               /\ msg'.step = "done"
               /\ Len(background') <= Len(background)
               /\ msg'.sent = <<>>
               /\ msg'.calls = <<>>
               /\ Untouched
         /\ (msg'.event.type = "user" /\ ~HasTrigger(msg'.event.text)) =>
               \/ msg'.sent # <<>> /\ msg'.step = "replyMessage"
               \/ /\ msg'.step \in {"showLoadingAnimation", "generateChatReply"}
                  /\ msg'.promptText # <<>>]_vars

\* the pasted document with two groups was received in a group chat without
\* a keyword and nothing was cached or sent for it
C25_Witness ==
    /\ msg.step = "done"
    /\ msg.kind = "ignored"
    /\ background = <<>>
    /\ msg.event.type # "user"
    /\ ~HasTrigger(msg.event.text)
    /\ Len(msg.event.text) >= MIN_SCHEDULE_LENGTH
    /\ storageBySource[GROUP] = <<>>
    /\ msg.calls = <<>>

(***************************************************************************)
(* C26  the report of the usage                                            *)
(***************************************************************************)
\* a report of the usage is among the messages that this handleMessage call
\* gave to sendMessage
ReportSent(h) == \E j \in 1..Len(h.sent) : "report" \in DOMAIN h.sent[j]

\* the sender of the event is the administrator and asks for the usage
AdminAsks(event) ==
    /\ env.ADMIN_USER_ID # NoUser
    /\ event.userId = env.ADMIN_USER_ID
    /\ event.text \in {<<"U4F7F", "U7528", "U91CF">>,
                       <<"U7528", "U91CF", "U67E5", "U8A62">>,
                       <<"U67E5", "U7528", "U91CF">>}

\* C26: the report of the usage is sent only when ADMIN_USER_ID is configured
\* and the userId of the sender equals it; the usage query of another sender,
\* or without an administrator, is never answered with the report.
C26_ReportForAdminOnly ==
    /\ ReportSent(msg) => AdminAsks(msg.event)
    /\ \A i \in 1..Len(background) :
          ReportSent(background[i]) => AdminAsks(background[i].event)

\* the administrator asked for the usage in a one-to-one chat and the report
\* went out with the reply API
C26_Witness ==
    /\ ReportSent(msg)
    /\ msg.step = "done"
    /\ msg.event.userId = env.ADMIN_USER_ID
    /\ msg.calls[1].api = "replyMessage"
    /\ msg.calls[1].messages = msg.sent
    /\ msg.calls[1].result = "ok"

(***************************************************************************)
(* C27  the reply API before the push API                                  *)
(***************************************************************************)
\* in this sequence of calls of the LINE client every push comes after a
\* reply that failed with an error of the reply token
PushAfterExpiredReply(calls) ==
    \A n \in 1..Len(calls) :
       calls[n].api = "pushMessage" =>
          \E m \in 1..(n - 1) : /\ calls[m].api = "replyMessage"
                                /\ calls[m].result = "token"

\* C27: every outbound message is first attempted with the reply API and
\* the push API is used only after that reply failed with an error of the
\* reply token; here for the answer to a batch of images.
C27_ReplyBeforePush ==
    \A i \in 1..Len(flushes) : PushAfterExpiredReply(flushes[i].calls)

\* C27, for the messages that handleMessage sends through replyOrPush: the
\* first call is the reply; the push follows only a reply that failed with an
\* error of the reply token for an event with a userId; the promise is
\* rejected exactly when the last call failed; a reply that succeeded is the
\* only call.
C27_ThroughReplyOrPush ==
    (msg.step = "done" /\ msg.calls # <<>>) =>
        /\ msg.calls[1].api = "replyMessage"
        /\ msg.calls[1].messages = msg.sent
        /\ PushAfterExpiredReply(msg.calls)
        /\ Len(msg.calls) <= 2
        /\ Len(msg.calls) = 2 <=>
              msg.calls[1].result = "token" /\ msg.event.userId # NoUser
        /\ Len(msg.calls) = 2 =>
              /\ msg.calls[2].api = "pushMessage"
              /\ msg.calls[2].to = msg.event.userId
              /\ msg.calls[2].messages = msg.sent
        /\ msg.thrown <=> msg.calls[Len(msg.calls)].result # "ok"

(***************************************************************************)
(* C28  the pace field of an interval line                                 *)
(***************************************************************************)
\* the pace field of a group of PIECES: what stands between the '@' and the
\* "/km" of its interval line, blanks apart
PaceFieldOf(piece) ==
    LET NotWs(x) == x \notin Whitespace
    IN  SelectSeq(SubSeq(piece, indexOf(piece, <<"@">>, 1) + 1,
                         indexOf(piece, <<"/", "k", "m">>, 1) - 1), NotWs)

\* C28: the paces of a group are the tokens of its pace field, '!' read as
\* '1' and the field split on '~', that are a valid MM:SS (of more than no
\* time), in their order; every lap time is that of its pace; and the pace
\* field 03:50~03:45 at 1200 m gives the paces 03:50 and 03:45, the lap times
\* 46 and 45 and 6 laps per repetition.
C28_PaceTokens ==
    Parsed =>
        \A i \in 1..Len(sched.parsed.groups) :
            LET g == sched.parsed.groups[i]
                field == PaceFieldOf(PIECES[g.name])
                Kept(t) == /\ Len(t) = 5
                           /\ t[3] = ":"
                           /\ \A k \in {1, 2, 4, 5} : t[k] \in Digits
                           /\ PaceSeconds(t) > 0
                tokens == split([k \in 1..Len(field) |->
                                    IF field[k] = "!" THEN "1" ELSE field[k]], "~")
            IN  /\ g.paces = SelectSeq(tokens, Kept)
                /\ Len(g.lapTimes) = Len(g.paces)
                /\ \A j \in 1..Len(g.paces) :
                       5 * g.lapTimes[j] - PaceSeconds(g.paces[j]) \in -2..2
                /\ g.name = "A" =>
                       /\ field = <<"0", "3", ":", "5", "0", "~", "0", "3", ":", "4", "5">>
                       /\ g.distance = <<"1", "2", "0", "0">>
                       /\ g.paces = <<<<"0", "3", ":", "5", "0">>,
                                      <<"0", "3", ":", "4", "5">>>>
                       /\ g.lapTimes = <<46, 45>>
                       /\ g.lapsPerRep = 6

\* a document with the paces 03:50~03:45, with 04:!5 read as 04:15, and with
\* a group of which both tokens, 0350 and 00:00, were dropped
C28_Witness ==
    /\ Parsed
    /\ \E i, j, k \in 1..Len(sched.parsed.groups) :
          /\ sched.parsed.groups[i].name = "A"
          /\ sched.parsed.groups[i].lapTimes = <<46, 45>>
          /\ sched.parsed.groups[j].paces = <<<<"0", "4", ":", "1", "5">>>>
          /\ sched.parsed.groups[j].lapTimes = <<51>>
          /\ sched.parsed.groups[k].name = "S"
          /\ sched.parsed.groups[k].paces = <<>>

(***************************************************************************)
(* C29  the groups and the headers                                         *)
(***************************************************************************)
\* what is extracted for a group of PIECES that stands alone in the block:
\* one group, or none when its span holds no interval
Alone(piece) == parseSchedule(PIECES.marker \o piece).groups

\* C29: the groups of a document are those of the headers of its block whose
\* span holds an interval, in the order of the headers, each as it is
\* extracted when it stands alone; a header without an interval adds nothing
\* and there is no document without a group.
C29_GroupPerHeader ==
    sched.step = "parsed" =>
        LET P == PIECES
            Of(piece) == IF indexOf(sched.text, piece, 1) # 0 THEN Alone(piece)
                         ELSE <<>>
            expected == IF indexOf(sched.text, P.marker, 1) = 0 THEN <<>>
                        ELSE Of(P.A) \o Of(P.B) \o Of(P.C) \o Of(P.S)
        IN  /\ sched.parsed.groups = expected
            /\ expected = <<>> <=> sched.parsed = NoSchedule
            /\ Alone(P.C) = <<>>

\* a text with the headers A, B, C and S, in this order, of which C has no
\* interval: the groups are A, B and S
C29_Witness ==
    /\ Parsed
    /\ indexOf(sched.text, PIECES.C, 1) # 0
    /\ Len(sched.parsed.groups) = 3
    /\ sched.parsed.groups[1].name = "A"
    /\ sched.parsed.groups[2].name = "B"
    /\ sched.parsed.groups[3].name = "S"

(***************************************************************************)
(* C30  the commands of the schedule                                       *)
(***************************************************************************)
\* the text holds the selection of a group: the two characters of the word
\* for the schedule, a letter of A-I or S in either case, the character for
\* group, with white space allowed around the letter
SelectsGroup(text) ==
    \E i \in 1..(Len(text) - 1) :
       /\ text[i] = "U8AB2" /\ text[i + 1] = "U8868"
       /\ \E j \in (i + 2)..Len(text) :
             /\ text[j] \in {"A", "B", "C", "D", "E", "F", "G", "H", "I", "S",
                             "a", "b", "c", "d", "e", "f", "g", "h", "i", "s"}
             /\ \A n \in (i + 2)..(j - 1) : text[n] \in {" ", "\n", "\t"}
             /\ \E k \in (j + 1)..Len(text) :
                   /\ text[k] = "U7D44"
                   /\ \A n \in (j + 1)..(k - 1) : text[n] \in {" ", "\n", "\t"}

\* the text is a short query for the schedule
AsksSchedule(text) ==
    /\ Len(trim(text)) < 15
    /\ \E i \in 1..(Len(text) - 1) :
          \/ text[i] = "U8AB2" /\ text[i + 1] = "U8868"
          \/ /\ i + 2 <= Len(text)
             /\ text[i] = "U8A13" /\ text[i + 1] = "U7DF4" /\ text[i + 2] = "U8868"

\* the text passes the gate of the schedule texts and parses to a group
HoldsGroups(text) ==
    /\ isTrainingSchedule(trim(text))
    /\ \E d \in {parseSchedule(trim(text))} : d # NoSchedule /\ Len(d.groups) >= 1

\* C30: a text that is the selection of a group, a short query for the
\* schedule, or a schedule text that parses to at least one group is answered
\* by the schedule path alone: its handling ends with a message handed to the
\* LINE client, no provider is called, the usage counter is not incremented
\* and no turn is appended to the memory (an expired entry may be deleted).
C30_ScheduleAlone ==
    [][(/\ Handles
        /\ msg'.event.type = "user" \/ HasTrigger(msg'.event.text)
        /\ \/ SelectsGroup(msg'.event.text)
           \/ AsksSchedule(msg'.event.text)
           \/ HoldsGroups(msg'.event.text))
       => /\ msg'.step = "replyMessage"
          /\ msg'.kind \in {"selection", "query", "schedule"}
          /\ Len(msg'.sent) = 1
          /\ started' = started
          /\ req' = req
          /\ apiUsageTracker' = apiUsageTracker
          /\ log' = log
          /\ \A u \in Users : chatHistoryCache'[u] \in {chatHistoryCache[u], NoEntry}]_vars

\* C30, for the rest of the handling: the handleMessage call of such a text
\* waits for the LINE client only and hands over the one message of the
\* schedule path: its steps call no provider, count nothing and append no
\* turn.
C30_NothingAfterTheReply ==
    [][(msg' # msg /\ msg'.kind \in {"selection", "query", "schedule"})
       => /\ msg'.step \in {"replyMessage", "pushMessage", "done"}
          /\ Len(msg'.sent) = 1
          /\ \A i \in 1..Len(msg'.calls) : msg'.calls[i].messages = msg'.sent
          /\ started' = started
          /\ req' = req
          /\ apiUsageTracker' = apiUsageTracker
          /\ log' = log]_vars

\* the selection of the group A was answered with the group of the cached
\* document, without a provider
C30_Witness ==
    /\ msg.step = "done"
    /\ msg.calls # <<>>
    /\ background = <<>>
    /\ started = 0
    /\ apiUsageTracker.flashCount = 0
    /\ msg.kind = "selection"
    /\ msg.sent[1].kind = "group"

(***************************************************************************)
(* C31  a failure in the background and the retry key                      *)
(***************************************************************************)
\* C31: when the handling of an event of a request fails in the background,
\* the retry key of the request is not in processedRetries afterwards, so
\* that a request delivered again with this key is handled again.
C31_FailureForgetsKey ==
    [][\A k \in RetryKeys :
          handled'[k].failed > handled[k].failed => k \notin processedRetries']_vars

(***************************************************************************)
(* C32  the intent read from the response of the model                     *)
(***************************************************************************)
\* parseUserIntent was called with a key and a message, and the model
\* answered with a text
Answered ==
    /\ intent.step = "resolved"
    /\ intent.apiKey
    /\ trim(intent.userMessage) # <<>>
    /\ intent.response # <<"throw">>

\* the result for the JSON object that the lexeme w stands for: the location
\* without the white space around it, null when nothing is left or when it
\* is no string; the cuisine when it is one of the list, else the last one
\* of the list
Normalised(w) ==
    LET o == IntentLexemes[w]
    IN  [location |-> IF o.location.type = "string"
                         /\ \E i \in 1..Len(o.location.value) :
                               o.location.value[i] \notin Whitespace
                      THEN Str(trim(o.location.value))
                      ELSE Null,
         cuisine |-> IF \E c \in VALID_CUISINES : o.cuisine = Str(c) THEN o.cuisine
                     ELSE IF o.cuisine.type = "string"
                             /\ trim(o.cuisine.value) \in VALID_CUISINES
                     THEN Str(trim(o.cuisine.value))
                     ELSE Str(<<"U4E0D", "U9650">>)]

\* the lexemes of the JSON objects
IntentObjects == {w \in DOMAIN IntentLexemes : IntentLexemes[w].kind = "object"}

\* the result is a location that is null or a text with a character, and a
\* cuisine that is null or one of the list
WellFormed(result) ==
    /\ \/ result.location = Null
       \/ result.location.type = "string" /\ trim(result.location.value) # <<>>
    /\ \/ result.cuisine = Null
       \/ \E c \in VALID_CUISINES : result.cuisine = Str(c)

\* the response is the lexeme w between the opening fence and a closing one
Fenced(opener, w) ==
    trim(intent.response) = opener \o <<w>> \o <<"\n">> \o FENCE

\* C32 as stated: the result is always well formed; for a JSON object, bare
\* or within any Markdown code fence, it is the normalised object (a cuisine
\* outside the list becomes the last of the list, an empty location null);
\* a text that is not JSON gives the fallback, location null and cuisine null.
C32_FencesIgnored ==
    Answered =>
        /\ WellFormed(intent.result)
        /\ \A w \in IntentObjects :
              /\ trim(intent.response) = <<w>> => intent.result = Normalised(w)
              /\ \A opener \in {FENCE \o <<"\n">>,
                                FENCE \o <<"j", "s", "o", "n", "\n">>,
                                FENCE \o <<"j", "s", "o", "\n">>,
                                FENCE \o <<"j", "s", "\n">>,
                                FENCE \o <<"J", "S", "O", "N", "\n">>,
                                FENCE \o <<"j", "s", "o", "n", "c", "\n">>} :
                    Fenced(opener, w) => intent.result = Normalised(w)
        /\ (\A i \in 1..Len(intent.response) :
               intent.response[i] \notin DOMAIN IntentLexemes)
           => intent.result = [location |-> Null, cuisine |-> Null]

\* C32, amended: the result is always well formed; for a JSON object, bare
\* or within a code fence that is bare or tagged json or jso in lower case,
\* it is the normalised object; within a fence with another tag (js, JSON,
\* jsonc) the tag or what follows json in it is left in the text and the
\* result is the fallback; a text that is not JSON gives the fallback,
\* location null and cuisine null.
C32_JsonFencesIgnored ==
    Answered =>
        /\ WellFormed(intent.result)
        /\ \A w \in IntentObjects :
              /\ trim(intent.response) = <<w>> => intent.result = Normalised(w)
              /\ \A opener \in {FENCE \o <<"\n">>,
                                FENCE \o <<"j", "s", "o", "n", "\n">>,
                                FENCE \o <<"j", "s", "o", "n", " ", "\n">>,
                                FENCE \o <<"j", "s", "o", "\n">>} :
                    Fenced(opener, w) => intent.result = Normalised(w)
              /\ \A opener \in {FENCE \o <<"j", "s", "\n">>,
                                FENCE \o <<"J", "S", "O", "N", "\n">>,
                                FENCE \o <<"j", "s", "o", "n", "c", "\n">>} :
                    Fenced(opener, w)
                    => intent.result = [location |-> Null, cuisine |-> Null]
        /\ (\A i \in 1..Len(intent.response) :
               intent.response[i] \notin DOMAIN IntentLexemes)
           => intent.result = [location |-> Null, cuisine |-> Null]

\* an object with a cuisine outside the list and no location, in a fence
\* tagged json after white space: no location and the last cuisine of the list
C32_Witness ==
    /\ Answered
    /\ intent.response = <<" ", "\n">> \o FENCE \o <<"j", "s", "o", "n", "\n", "italian",
                                                    "\n">> \o FENCE
    /\ intent.result = [location |-> Null, cuisine |-> Str(<<"U4E0D", "U9650">>)]

(***************************************************************************)
(* C33  a query for a date or for another week                             *)
(***************************************************************************)
\* the month and the day that the text names as digits around '/', <<0, 0>>
\* when it names none
NamedDay(text) ==
    LET slash == {i \in 2..(Len(text) - 1) :
                    text[i] = "/" /\ text[i - 1] \in Digits /\ text[i + 1] \in Digits}
    IN  IF slash = {} THEN <<0, 0>>
        ELSE LET i == CHOOSE x \in slash : \A y \in slash : x <= y
                 m == IF i > 2 /\ text[i - 2] \in {"0", "1"}
                      THEN 10 * DigitValue(text[i - 2]) + DigitValue(text[i - 1])
                      ELSE DigitValue(text[i - 1])
                 d == IF i + 2 <= Len(text) /\ text[i + 2] \in Digits
                         /\ text[i + 1] \in {"0", "1", "2", "3"}
                      THEN 10 * DigitValue(text[i + 1]) + DigitValue(text[i + 2])
                      ELSE DigitValue(text[i + 1])
             IN  <<m, d>>

\* the text holds the word w, a sequence of sets of characters of which
\* one stands at each place
HasWord(text, w) ==
    \E i \in 1..(Len(text) - Len(w) + 1) : \A k \in 1..Len(w) : text[i + k - 1] \in w[k]

\* the words of the next week, of the last week, and the word for a time
\* (the next one or the last one), which line 330 takes for the next week
NextWord(text) ==
    \/ HasWord(text, <<{"U4E0B"}>>) \/ HasWord(text, <<{"U660E"}>>)
    \/ HasWord(text, <<{"n", "N"}, {"e", "E"}, {"x", "X"}, {"t", "T"}>>)
LastWord(text) ==
    \/ HasWord(text, <<{"U4E0A"}>>) \/ HasWord(text, <<{"U524D"}>>)
    \/ HasWord(text, <<{"l", "L"}, {"a", "A"}, {"s", "S"}, {"t", "T"}>>)
TimeWord(text) == HasWord(text, <<{"U6B21"}>>)

\* the text asks for the next week as line 330 reads it
NextWeek(text) == NextWord(text) \/ TimeWord(text)

\* the day that is `days` after the day of the server
DayAfter(today, days) ==
    LET day == civilOf(DateOf(today.year, today.month, today.date) + days)
    IN  [year |-> day.year, month |-> day.month, date |-> day.date]

\* the day that the text names in the year of the server
DayNamed(text, today) ==
    LET day == civilOf(DateOf(today.year, NamedDay(text)[1] - 1, NamedDay(text)[2]))
    IN  [year |-> day.year, month |-> day.month, date |-> day.date]

\* the day that lines 323-337 take as the target of a query: the date it
\* names; without one the day a week on, when it has a word of the next week
\* or the word for a time; else the day a week back
TargetDay(text, today) ==
    IF NamedDay(text) # <<0, 0>> THEN DayNamed(text, today)
    ELSE IF NextWeek(text) THEN DayAfter(today, 7)
    ELSE DayAfter(today, -7)

\* the days that the words of the query ask for: the date it names; without
\* one the day a week on for a word of the next week, the day a week back
\* for a word of the last week; the word for a time asks for the next one
\* unless a word of the last week stands in the text (U4E0A U6B21, the last
\* time)
DaysAsked(text, today) ==
    IF NamedDay(text) # <<0, 0>> THEN {DayNamed(text, today)}
    ELSE (IF NextWord(text) \/ (TimeWord(text) /\ ~LastWord(text))
          THEN {DayAfter(today, 7)} ELSE {})
         \cup (IF LastWord(text) THEN {DayAfter(today, -7)} ELSE {})

\* the period MM/DD-MM/DD holds the day
Holds(period, day) ==
    LET parts == PeriodParts(period)
    IN  /\ Len(parts) = 2
        /\ IsMonthDay(parts[1]) /\ IsMonthDay(parts[2])
        /\ InPeriod(day, MonthDay(parts[1]), MonthDay(parts[2]))

\* this step handles a short query for the schedule of a date, of the next
\* week or of the last week
HandlesDatedQuery ==
    /\ Handles
    /\ msg'.event.type = "user" \/ HasTrigger(msg'.event.text)
    /\ AsksSchedule(msg'.event.text)
    /\ ~SelectsGroup(msg'.event.text)
    /\ \/ NamedDay(msg'.event.text) # <<0, 0>>
       \/ NextWeek(msg'.event.text) \/ LastWord(msg'.event.text)

\* C33 as stated: a query for the schedule of a date, of the next week or of
\* the last week is answered with a document only when the period of the
\* document holds a day asked for, whether the document comes from the
\* cache or from the memory; otherwise the answer is that no schedule is
\* stored.
C33_OnlyTheWeekNamed ==
    [][HandlesDatedQuery =>
         /\ Len(msg'.sent) = 1
         /\ \/ msg'.sent[1].kind = "nothing cached"
            \/ /\ msg'.sent[1].kind = "choose"
               /\ \E day \in DaysAsked(msg'.event.text, sched.ref) :
                     Holds(msg'.sent[1].periodStr, day)]_vars

\* C33 for the target of lines 323-337 (the named date; else the day a week
\* on for a word of the next week or the word for a time, also beside a word
\* of the last week; else the day a week back): the query is answered with
\* a document exactly when a period of the cache, or of the document
\* rescued from the memory into an empty cache, holds the target; the
\* document presented is of such a period, and otherwise the answer is that
\* no schedule is stored, also when the source has a cached document of
\* another period.
C33_OnlyTheWeekAsked ==
    [][HandlesDatedQuery =>
         /\ Len(msg'.sent) = 1
         /\ \/ msg'.sent[1].kind = "nothing cached"
            \/ /\ msg'.sent[1].kind = "choose"
               /\ Holds(msg'.sent[1].periodStr, TargetDay(msg'.event.text, sched.ref))
               /\ msg'.sent[1].isTargetWeek
         /\ msg'.sent[1].kind = "choose" <=>
               \/ \E i \in 1..Len(storageBySource[msg'.event.sourceId]) :
                     Holds(storageBySource[msg'.event.sourceId][i].period,
                           TargetDay(msg'.event.text, sched.ref))
               \/ \E i \in 1..Len(storageBySource'[msg'.event.sourceId]) :
                     /\ storageBySource[msg'.event.sourceId] = <<>>
                     /\ Holds(storageBySource'[msg'.event.sourceId][i].period,
                              TargetDay(msg'.event.text, sched.ref))]_vars

\* asked for the next week on 5 March, the document of 02/23-03/01 was found
\* in the memory and cached, but it was not presented
C33_Witness ==
    /\ msg.step = "done"
    /\ msg.kind = "query"
    /\ Len(msg.sent) = 1
    /\ NextWord(msg.event.text)
    /\ msg.sent[1].kind = "nothing cached"
    /\ storageBySource[msg.event.sourceId] # <<>>
    /\ storageBySource[msg.event.sourceId][1].period
         = <<"0", "2", "/", "2", "3", "-", "0", "3", "/", "0", "1">>
    /\ sched.ref.month = 2

\* asked for 1/2, the cached document of 12/29~01/04 was presented
C33_CacheWitness ==
    /\ msg.step = "done"
    /\ msg.kind = "query"
    /\ Len(msg.sent) = 1
    /\ NamedDay(msg.event.text) = <<1, 2>>
    /\ msg.sent[1].kind = "choose"
    /\ msg.sent[1].periodStr
         = <<"1", "2", "/", "2", "9", "~", "0", "1", "/", "0", "4">>

\* asked for the last week on 8 January, the cached document of 12/29~01/04
\* was presented; asked on 5 March, the document of 02/23-03/01 was rescued
\* from the memory and presented
C33_LastWeekWitness ==
    /\ msg.step = "done"
    /\ msg.kind = "query"
    /\ Len(msg.sent) = 1
    /\ LastWord(msg.event.text) /\ ~TimeWord(msg.event.text)
    /\ msg.sent[1].kind = "choose"
    /\ \/ /\ sched.ref.month = 0
          /\ msg.sent[1].periodStr
               = <<"1", "2", "/", "2", "9", "~", "0", "1", "/", "0", "4">>
       \/ /\ sched.ref.month = 2
          /\ msg.sent[1].periodStr
               = <<"0", "2", "/", "2", "3", "-", "0", "3", "/", "0", "1">>

\* asked for the schedule of the last time on 20 February, the document of
\* 02/23-03/01, the week after, was presented
C33_NextForLast ==
    /\ msg.step = "done"
    /\ msg.kind = "query"
    /\ Len(msg.sent) = 1
    /\ LastWord(msg.event.text) /\ TimeWord(msg.event.text)
    /\ msg.sent[1].kind = "choose"
    /\ msg.sent[1].periodStr
         = <<"0", "2", "/", "2", "3", "-", "0", "3", "/", "0", "1">>
    /\ sched.ref.month = 1

(***************************************************************************)
(* C34: the selection of a group after the acknowledgement of a document   *)
(***************************************************************************)
\* the handleMessage call that moved last was that of a document: the
\* acknowledgement with the buttons of its groups has been delivered
Acknowledged == msg.kind = "schedule" /\ msg.step = "done" /\ ~msg.thrown

\* the next message comes from the same source and selects one of the
\* groups offered
SelectsOffered ==
    /\ Acknowledged
    /\ msg'.handled = msg.handled + 1
    /\ msg'.event.sourceId = msg.event.sourceId
    /\ \E i \in 1..Len(msg.sent[1].groups) :
          msg.sent[1].groups[i] = ReadText[msg'.event.text].selectedGroup

\* the answer with the group `name` of the document of the text `raw`
AnswerOf(raw, name) ==
    CHOOSE a \in {<<[kind |-> "group", weekLabel |-> parsed.weekLabel,
                     group |-> parsed.groups[
                        CHOOSE i \in 1..Len(parsed.groups) :
                           /\ parsed.groups[i].name = name
                           /\ \A j \in 1..(i - 1) : parsed.groups[j].name # name]]>> :
                    parsed \in {ReadText[raw].parsed}} : TRUE

\* C34: after a document was acknowledged with the buttons of its groups,
\* the selection of one of these groups sent next from the same source is
\* answered with the data of that group in the document acknowledged
C34_SelectionOfTheAcknowledged ==
    [][SelectsOffered
       => msg'.sent = AnswerOf(msg.event.text,
                               ReadText[msg'.event.text].selectedGroup)]_vars

\* the same for a selection in a one-to-one chat or with a trigger, after a
\* document with a period, when no document of another period of the source
\* holds today
C34_SelectionOfTheOnlyWeek ==
    [][(/\ SelectsOffered
        /\ msg'.event.type = "user" \/ ReadText[msg'.event.text].isTriggered
        /\ ReadText[msg.event.text].parsed.periodStr # <<>>
        /\ getThisWeekSchedule(storageBySource, msg.event.sourceId, sched.ref)
             \in {NoSchedule, ReadText[msg.event.text].parsed})
       => msg'.sent = AnswerOf(msg.event.text,
                               ReadText[msg'.event.text].selectedGroup)]_vars

\* a selection was answered with the group of the document acknowledged
C34_AnsweredWitness ==
    /\ msg.handled = 2
    /\ msg.kind = "selection"
    /\ Len(msg.sent) = 1
    /\ msg.sent[1].kind = "group"
    /\ msg.sent[1].weekLabel = <<"W", "e", "e", "k", "9">>


(***************************************************************************)
(* C35: the stored histories are sequences of exchanges                    *)
(***************************************************************************)
\* the turns 2i-1 and 2i of h are the message and the reply of one exchange
\* of u
ExchangeAt(h, i, u) ==
    /\ h[2 * i - 1].role = "user"
    /\ h[2 * i].role = "model"
    /\ \E j \in 1..(Len(log[u]) \div 2) :
          log[u][2 * j - 1] = h[2 * i - 1] /\ log[u][2 * j] = h[2 * i]

\* C35: in every reachable state, however the exchanges interleave, every
\* stored history has an even length and is made of pairs: a user turn at
\* every odd position, followed by the model turn of the same exchange
C35_PairsOfTurns ==
    \A u \in Users :
        chatHistoryCache[u] # NoEntry =>
            \A h \in {heap[chatHistoryCache[u].history]} :
                /\ Len(h) % 2 = 0
                /\ \A i \in 1..(Len(h) \div 2) : ExchangeAt(h, i, u)

\* an exchange has cut the history to MAX_HISTORY_LENGTH turns while
\* another call of the same identity still holds the array it read
C35_Witness ==
    /\ chatHistoryCache["u1"] # NoEntry
    /\ Len(heap[chatHistoryCache["u1"].history]) = MAX_HISTORY_LENGTH
    /\ Len(log["u1"]) > MAX_HISTORY_LENGTH
    /\ \E s \in Slots :
          /\ req[s].pc # "idle"
          /\ req[s].userHistory \notin {0, chatHistoryCache["u1"].history}


(***************************************************************************)
(* C36: the daily count of the standard model under concurrency            *)
(***************************************************************************)
\* C36: however many calls are in flight at once, the count of calls of
\* the standard model recorded for a day never exceeds FLASH_LIMIT
C36_NeverAboveLimit == apiUsageTracker.flashCount <= FLASH_LIMIT

\* what does hold: every call counted selected the standard model below
\* the threshold, so the count and the calls still awaiting the standard
\* model stay within the threshold plus the calls in flight
C36_WithinThresholdAndInFlight ==
    apiUsageTracker.flashCount + pending[STANDARD] <= FLASH_THRESHOLD - 1 + MaxPending


(***************************************************************************)
(* C37: the chat a batch of images is answered in                          *)
(***************************************************************************)
\* C37: every image of a batch, queued or taken by its timer, came from
\* the chat the reply of the batch is pushed to: images of two chats are
\* never merged, and no reply goes to another chat than the one of the image
C37_OneChatPerBatch ==
    /\ \A k \in DOMAIN imageBatchQueue :
          \A j \in 1..Len(imageBatchQueue[k].chats) :
              imageBatchQueue[k].chats[j] = imageBatchQueue[k].targetId
    /\ \A i \in 1..Len(flushes) :
          /\ \A j \in 1..Len(flushes[i].chats) :
                flushes[i].chats[j] = flushes[i].targetId
          /\ \A c \in 1..Len(flushes[i].calls) :
                \A j \in 1..Len(flushes[i].chats) :
                    flushes[i].calls[c].to = flushes[i].chats[j]

\* the reply about an image sent in the group was pushed to the chat of the
\* user alone
C37_WrongChat ==
    \E i \in 1..Len(flushes) :
        /\ flushes[i].step = "done"
        /\ Len(flushes[i].calls) = 1
        /\ flushes[i].calls[1].result = "ok"
        /\ flushes[i].calls[1].to = "u1"
        /\ \E j \in 1..Len(flushes[i].chats) : flushes[i].chats[j] = GROUP


(***************************************************************************)
(* C38: every image is analysed once                                       *)
(***************************************************************************)
\* where the image n is: the positions in the batches of the queue and in
\* the batches taken by a timer, each of which goes to one call of
\* generateChatReply
Holders(n) ==
    UNION {{<<"queue", k, j>> :
               j \in {x \in 1..Len(imageBatchQueue[k].images) :
                        imageBatchQueue[k].images[x] = n}} :
             k \in DOMAIN imageBatchQueue}
    \cup UNION {{<<"flush", i, j>> :
                    j \in {x \in 1..Len(flushes[i].images) :
                             flushes[i].images[x] = n}} :
                  i \in 1..Len(flushes)}

\* the elements of a sequence
Range(q) == {q[x] : x \in 1..Len(q)}

\* a batch holds the images of its user that arrived after those of the
\* batches taken before it
InOrder ==
    /\ \A i \in 1..Len(flushes) : \A j \in 1..Len(flushes) :
          i < j /\ flushes[i].batchKey = flushes[j].batchKey
             => \A a \in Range(flushes[i].images) :
                   \A b \in Range(flushes[j].images) : a < b
    /\ \A i \in 1..Len(flushes) : \A k \in DOMAIN imageBatchQueue :
          flushes[i].batchKey = k
             => \A a \in Range(flushes[i].images) :
                   \A b \in Range(imageBatchQueue[k].images) : a < b

\* the image n is in a batch taken by a timer
Flushed(n) ==
    \E i \in 1..Len(flushes) : \E j \in 1..Len(flushes[i].images) :
        flushes[i].images[j] = n


\* the call of generateChatReply a callback waits for was given the images
\* of its batch, for the user of the batch
CalledWithBatch ==
    \A i \in 1..Len(flushes) :
        flushes[i].step = "generateChatReply" =>
            /\ req[flushes[i].slot].imageBase64 = flushes[i].images
            /\ req[flushes[i].slot].userId = flushes[i].batchKey
            /\ \A j \in 1..Len(flushes) :
                  flushes[j].step = "generateChatReply" /\ j # i
                     => flushes[j].slot # flushes[i].slot

\* C38: every image accepted by enqueueImage is in exactly one batch, and
\* so goes to one call of generateChatReply, neither lost nor analysed
\* twice; the batches of a user follow the order of arrival; and every
\* image is eventually in a batch taken by its timer
C38_OnceAndFlushed ==
    /\ [](\A n \in 1..arrived : Cardinality(Holders(n)) = 1)
    /\ []InOrder
    /\ []CalledWithBatch
    /\ \A n \in 1..MaxImages : (arrived >= n) ~> Flushed(n)

\* two batches of one user were taken, the first with two images, and both
\* went through generateChatReply
C38_Witness ==
    /\ Len(flushes) = 2
    /\ flushes[1].batchKey = flushes[2].batchKey
    /\ flushes[1].images = <<1, 2>>
    /\ flushes[2].images = <<3>>
    /\ \A i \in 1..2 : flushes[i].step = "done"
    /\ Len(log[flushes[1].batchKey]) = 4


(***************************************************************************)
(* C39: the paces of the groups emitted                                    *)
(***************************************************************************)
\* C39: every group of a document returned by parseSchedule has at least
\* one pace and one lap time: a group whose interval line yields no valid
\* pace token is not emitted
C39_GroupsHavePaces ==
    Parsed =>
        \A i \in 1..Len(sched.parsed.groups) :
            /\ Len(sched.parsed.groups[i].paces) >= 1
            /\ Len(sched.parsed.groups[i].lapTimes) >= 1


(***************************************************************************)
(* C40: the turns of an expired entry                                      *)
(***************************************************************************)
\* the entry of u1 is gone: in RaceSpec, where u1 starts with the entry of
\* EarlierTurns and only a read that finds an entry expired deletes it,
\* this entry or a later one has expired and a read has deleted it
DeletedByRead == chatHistoryCache["u1"] = NoEntry

\* a message of the first entry of u1 is in its stored history (the
\* messages tell the exchanges apart, the replies do not)
EarlierTurnsStored(cache, hp) ==
    /\ cache["u1"] # NoEntry
    /\ \E i \in 1..Len(hp[cache["u1"].history]) :
          \E j \in 1..Len(EarlierTurns) :
              /\ EarlierTurns[j].role = "user"
              /\ hp[cache["u1"].history][i] = EarlierTurns[j]

\* C40: once the expired entry of an identity has been deleted by a read,
\* an exchange that read it before and completes afterwards does not write
\* its turns back: the entry stored next holds none of them
C40_ExpiredTurnsStayGone ==
    [][DeletedByRead => ~EarlierTurnsStored(chatHistoryCache', heap')]_vars

\* the expired turns are back in the memory and in the prompt of a call
\* started after the read that deleted them
C40_Reappeared ==
    /\ EarlierTurnsStored(chatHistoryCache, heap)
    /\ now >= StartNow + Seconds(HISTORY_TTL_MS)
    /\ Len(log["u1"]) = Len(EarlierTurns) + 2
    /\ \E s \in Slots :
          /\ req[s].pc # "idle"
          /\ req[s].userHistory = chatHistoryCache["u1"].history

====
